---- MODULE Spec2Model ----
(***************************************************************************)
(* Flow routing and multi-step verification of the Sorti365 support chat   *)
(* backend: the session store (ChatService), the extraction gateway        *)
(* (MicroservicesClientService, MultimodalService), the verification       *)
(* services and the flow router (OrchestratorService.processMessage).      *)
(*                                                                         *)
(* One action models one public operation as a whole.  A handler is written*)
(* in state-passing style: a record `st` carries the stores and what the   *)
(* turn did; st.err # "" means an exception is propagating, and every step *)
(* then leaves st alone, as an unwinding stack does.                       *)
(***************************************************************************)
EXTENDS Integers, Sequences, FiniteSets, TLC

VARIABLES
    sessions,          \* chat_sessions collection: session id -> document
    messages,          \* chat_messages collection, in insertion order
    players,           \* backoffice players collection: account id -> record
    openaiConfigured,  \* OpenAIService.client is set (API key present)
    last,              \* what the last operation did and returned
    inflight           \* deliveries of the transport: delivery -> handler position

vars == <<sessions, messages, players, openaiConfigured, last, inflight>>

(***************************************************************************)
(* Bounds                                                                  *)
(***************************************************************************)
MaxMessages == 2       \* messages stored per run of the model

(***************************************************************************)
(* Values                                                                  *)
(***************************************************************************)
None == "none"         \* undefined / null / absent

\* ids the store assigns on createSession; "s9" is a well-formed id that is
\* never assigned, "bad" is not a well-formed ObjectId; "s2" is assigned only
\* where two sessions are live at once
NewIds == {"s1"}
PairIds == {"s1", "s2"}
WellFormedIds == {"s1", "s2", "s9"}
AllIds == {"s1", "s9", "bad"}

\* the deliveries the transport can receive (chat:message events and POSTs
\* to the process endpoint), and the handler of each: not yet received, at
\* one of its awaits, or finished
Deliveries == {"d1", "d2"}
Unsent ==
    [sid |-> "none", via |-> "none", pc |-> "unsent", content |-> <<>>, images |-> <<>>,
     reply |-> <<>>, persisted |-> <<>>, emitted |-> <<>>]
NoDeliveries == [d \in Deliveries |-> Unsent]

\* account ids of the players collection, and those a turn may carry
PlayerIds == {"pA", "pB"}
DtoPlayerIds == {None, "pA", "pB"}


\* SessionStatus, SessionContext, KYCStep, FlowType
ACTIVE == "active"
CLOSED == "closed"
GENERAL == "general"
CTX_TICKET == "ticket_verification"
CTX_KYC == "kyc"
NOT_STARTED == "not_started"
FRONT_DOCUMENT == "front_document"
BACK_DOCUMENT == "back_document"
SELFIE == "selfie"
COMPLETED == "completed"
TICKET_VERIFICATION == "ticket_verification"
KYC_DOCUMENT == "kyc_document"
KYC_SELFIE == "kyc_selfie"
GENERAL_QUERY == "general_query"

USER == "user"
ASSISTANT == "assistant"

(***************************************************************************)
(* Text.  A text is a sequence of whitespace-separated tokens; a token is  *)
(* a word (w) or a run of digits (d: digits 0..9).                         *)
(***************************************************************************)
W(s) == [w |-> s, d |-> <<>>]
D(ds) == [w |-> "", d |-> ds]

Id0000085426 == <<0, 0, 0, 0, 0, 8, 5, 4, 2, 6>>
Id0000099999 == <<0, 0, 0, 0, 0, 9, 9, 9, 9, 9>>

\* String.prototype.includes on the lowered text, for a lexicon entry
Includes(text, kw) == \E i \in 1..Len(text) : text[i].w = kw

EXIT_CONTEXT_KEYWORDS ==
    {"otra cosa", "otro tema", "cambiar", "salir", "consulta general",
     "nuevo ticket", "otra apuesta", "diferente", "no, gracias", "eso es todo",
     "nada más", "nada mas", "listo", "ok gracias", "ok, gracias"}

TICKET_FOLLOWUP_KEYWORDS ==
    {"por qué", "porque", "por que", "perdí", "perdi", "gané", "gane",
     "explica", "entiendo", "cómo", "como", "qué pasó", "que paso",
     "resultado", "evento", "partido", "cuota", "monto", "apuesta",
     "detalle", "más info", "mas info", "dime más", "dime mas"}

wantsToExit(text) == \E kw \in EXIT_CONTEXT_KEYWORDS : Includes(text, kw)
isFollowUp(text) == \E kw \in TICKET_FOLLOWUP_KEYWORDS : Includes(text, kw)

\* F applied to the value of v
Bind(v, F(_)) == CHOOSE r \in {F(x) : x \in {v}} : TRUE

\* An optional value is <<>> (undefined / null) or <<x>>
Absent == <<>>
Some(x) == <<x>>
IsSome(o) == o # <<>>
Get(o) == o[1]

\* dto.content is optional; Some(<<>>) is a string of blanks only
\* content && content.trim().length > 0
hasText(content) == IsSome(content) /\ Len(Get(content)) > 0
\* (dto.content || '').toLowerCase()
textLower(content) == IF IsSome(content) THEN Get(content) ELSE <<>>

Prefix(s, n) == SubSeq(s, 1, IF Len(s) < n THEN Len(s) ELSE n)

\* digits only (no blank inside the run)
AllDigits(ds) == \A i \in 1..Len(ds) : ds[i] \in 0..9
\* the leading run of digits of an id token
RECURSIVE DigitRun(_)
DigitRun(ds) ==
    IF ds = <<>> \/ ds[1] \notin 0..9 THEN <<>>
    ELSE <<ds[1]>> \o DigitRun(Tail(ds))

LabelWords == {"ticket", "id", "#", "número", "numero"}
Separators == {":", "="}

\* /(?:ticket|id|#|número|numero)\s*[:=]?\s*(\d{4,10})/i : leftmost match
P1At(text, i) ==
    /\ text[i].w \in LabelWords
    /\ \/ /\ i + 1 <= Len(text)
          /\ Len(DigitRun(text[i + 1].d)) >= 4
       \/ /\ i + 2 <= Len(text)
          /\ text[i + 1].w \in Separators
          /\ Len(DigitRun(text[i + 2].d)) >= 4
P1Value(text, i) ==
    IF Len(DigitRun(text[i + 1].d)) >= 4
    THEN Prefix(DigitRun(text[i + 1].d), 10)
    ELSE Prefix(DigitRun(text[i + 2].d), 10)
\* /(\d{8,10})/
P2At(text, i) == Len(DigitRun(text[i].d)) >= 8
\* /(?:^|\s)(0{2,}\d{4,})/
P3At(text, i) ==
    LET r == DigitRun(text[i].d)
    IN Len(r) >= 6 /\ r[1] = 0 /\ r[2] = 0

Leftmost(text, P(_, _)) ==
    IF \E i \in 1..Len(text) : P(text, i)
    THEN CHOOSE i \in 1..Len(text) :
            P(text, i) /\ \A j \in 1..(i - 1) : ~P(text, j)
    ELSE 0

\* the extracted id, <<>> for null
extractTicketId(text) ==
    LET i1 == Leftmost(text, P1At)
        i2 == Leftmost(text, P2At)
        i3 == Leftmost(text, P3At)
    IN IF i1 > 0 THEN P1Value(text, i1)
       ELSE IF i2 > 0 THEN Prefix(DigitRun(text[i2].d), 10)
       ELSE IF i3 > 0 THEN DigitRun(text[i3].d)
       ELSE <<>>

\* the texts a turn may carry
TextBodies ==
    { <<W("hola")>>,
      <<W("otra cosa")>>,
      <<W("por qué"), W("perdí")>>,
      <<W("mi"), W("ticket"), W("es"), D(Id0000085426)>>,
      <<D(Id0000099999)>>,
      <<W("otra cosa"), W("por qué"), D(Id0000085426)>> }
\* Some(<<>>) is a text of blanks only: a string that is truthy and trims to
\* nothing
Contents == {Absent, Some(<<>>)} \cup {Some(t) : t \in TextBodies}
\* the texts a turn with an image may carry
ImageContents ==
    {Absent, Some(<<W("otra cosa")>>), Some(<<W("por qué"), W("perdí")>>)}

(***************************************************************************)
(* The state a handler threads through its steps.                          *)
(*   err      "" or the message of the exception that is propagating       *)
(*   calls    the external capabilities the handler has called             *)
(*   kyc      the writes of kycState, as <<operation, from, to>>           *)
(*   stage    the KYC stage verification that ran, with its success flag   *)
(*   resolved the ledger record whose data the reply carries               *)
(***************************************************************************)
StartSt ==
    [err |-> "", sessions |-> sessions, messages |-> messages,
     players |-> players, calls |-> {}, kyc |-> <<>>, stage |-> <<>>,
     resolved |-> <<>>, statuses |-> <<>>]

Throw(st, msg) == [st EXCEPT !.err = msg]
Called(st, c) == [st EXCEPT !.calls = @ \cup {c}]

\* ProcessingStep, and a ProcessingStatus handed to onStatusUpdate
STEP_RECEIVED == "received"
STEP_ANALYZING_IMAGE == "analyzing_image"
STEP_EXTRACTING_TEXT == "extracting_text"
STEP_QUERYING_API == "querying_api"
STEP_GENERATING_RESPONSE == "generating_response"
STEP_VERIFYING_DOCUMENT == "verifying_document"
STEP_COMPARING_FACES == "comparing_faces"
STEP_COMPLETED == "completed"
STEP_ERROR == "error"
Status(step, progress) == [step |-> step, progress |-> progress]
\* onStatusUpdate(status), with a callback that delivers
Emit(st, step, progress) ==
    IF st.err # "" THEN st
    ELSE [st EXCEPT !.statuses = Append(@, Status(step, progress))]

\* new Date(): the store's clock, read off the number of documents written
Now(st) == Len(st.messages)

\* Types.ObjectId.isValid
IsValidObjectId(sid) == sid \in WellFormedIds

(***************************************************************************)
(* ChatService                                                             *)
(***************************************************************************)
NewSession(playerId) ==
    [status |-> ACTIVE, context |-> GENERAL, playerId |-> playerId,
     lastVerifiedTicket |-> Absent, kycState |-> Absent]

\* the exception getSession raises for sid, "" when it returns the session
getSessionError(st, sid) ==
    IF ~IsValidObjectId(sid) THEN "NotFoundException: Invalid session ID"
    ELSE IF sid \notin DOMAIN st.sessions
         THEN "NotFoundException: Session not found"
         ELSE ""

\* a step that loads the session with getSession and saves what f makes of it
WithSession(st, sid, f(_)) ==
    IF st.err # "" THEN st
    ELSE IF getSessionError(st, sid) # "" THEN Throw(st, getSessionError(st, sid))
    ELSE [st EXCEPT !.sessions[sid] = f(@)]

KycStepOf(session) ==
    IF IsSome(session.kycState) THEN Get(session.kycState).currentStep
    ELSE "absent"

LogKyc(st, sid, op, after) ==
    Bind(after, LAMBDA st2 :
      IF st2.err # "" \/ st.err # "" THEN st2
      ELSE [st2 EXCEPT !.kyc = Append(@, <<op, KycStepOf(st.sessions[sid]),
                                            KycStepOf(st2.sessions[sid])>>)])

\* faulty variant: the role given is dropped and the message stored as a user's
addMessage_WrongRole(st0, sid, role, text) ==
    Bind(st0, LAMBDA st :
      IF st.err # "" THEN st
      ELSE IF getSessionError(st, sid) # "" THEN Throw(st, getSessionError(st, sid))
      ELSE IF st.sessions[sid].status = CLOSED
           THEN Throw(st, "NotFoundException: Session is closed")
           ELSE [st EXCEPT !.messages =
                    Append(@, [sessionId |-> sid, role |-> USER, text |-> text,
                               createdAt |-> Now(st)])])

addMessage(st0, sid, role, text) ==
    Bind(st0, LAMBDA st :
      IF st.err # "" THEN st
      ELSE IF getSessionError(st, sid) # "" THEN Throw(st, getSessionError(st, sid))
      ELSE IF st.sessions[sid].status = CLOSED
           THEN Throw(st, "NotFoundException: Session is closed")
           ELSE [st EXCEPT !.messages =
                    Append(@, [sessionId |-> sid, role |-> role, text |-> text,
                               createdAt |-> Now(st)])])

addAssistantMessage(st0, sid, text) ==
    Bind(st0, LAMBDA st :
      IF st.err # "" THEN st
      ELSE IF getSessionError(st, sid) # "" THEN Throw(st, getSessionError(st, sid))
      ELSE [st EXCEPT !.messages =
               Append(@, [sessionId |-> sid, role |-> ASSISTANT, text |-> text,
                          createdAt |-> Now(st)])])

closeSession_Toggles(st0, sid) ==
    Bind(st0, LAMBDA st :
      LET f(s) == [s EXCEPT !.status = IF @ = CLOSED THEN ACTIVE ELSE CLOSED]
      IN WithSession(st, sid, f))

closeSession(st0, sid) ==
    Bind(st0, LAMBDA st :
      LET f(s) == [s EXCEPT !.status = CLOSED]
      IN WithSession(st, sid, f))

setLastVerifiedTicket(st0, sid, ticketId, betData) ==
    Bind(st0, LAMBDA st :
      LET f(s) == [s EXCEPT
                     !.lastVerifiedTicket =
                         Some([ticketId |-> ticketId, betData |-> betData,
                               verifiedAt |-> Now(st)]),
                     !.context = CTX_TICKET]
      IN WithSession(st, sid, f))

\* faulty variant: the stored ticket is never found
getLastVerifiedTicket_Forgets(st, sid) == Absent

\* session.lastVerifiedTicket || null  (of a session that exists)
getLastVerifiedTicket(st, sid) == st.sessions[sid].lastVerifiedTicket

\* faulty variant: the ticket is forgotten but the context tag is left as it was
clearTicketContext_KeepsContext(st0, sid) ==
    Bind(st0, LAMBDA st :
      LET f(s) == [s EXCEPT !.lastVerifiedTicket = Absent]
      IN WithSession(st, sid, f))

clearTicketContext(st0, sid) ==
    Bind(st0, LAMBDA st :
      LET f(s) == [s EXCEPT !.lastVerifiedTicket = Absent, !.context = GENERAL]
      IN WithSession(st, sid, f))

\* session.kycState || null  (of a session that exists)
getKYCState(st, sid) == st.sessions[sid].kycState

FreshKycState(st) ==
    [currentStep |-> FRONT_DOCUMENT, documentNumber |-> None,
     fullName |-> None, frontImageBase64 |-> None, backImageBase64 |-> None,
     startedAt |-> Now(st), completedAt |-> -1]

initKYCProcess(st0, sid) ==
    Bind(st0, LAMBDA st :
      LET f(s) == [s EXCEPT !.kycState = Some(FreshKycState(st)),
                            !.context = CTX_KYC]
      IN LogKyc(st, sid, "init", WithSession(st, sid, f)))

\* faulty variant: the image of the front document is not kept
updateKYCFrontDocument_DropsImage(st0, sid, documentNumber, fullName, frontImageBase64) ==
    Bind(st0, LAMBDA st :
      LET f(s) ==
            LET k == IF IsSome(s.kycState) THEN Get(s.kycState)
                     ELSE FreshKycState(st)
            IN [s EXCEPT !.kycState =
                   Some([k EXCEPT !.documentNumber = documentNumber,
                                  !.fullName = fullName,
                                  !.currentStep = BACK_DOCUMENT])]
      IN LogKyc(st, sid, "front", WithSession(st, sid, f)))

\* faulty variant: the front document moves the process straight to the selfie
updateKYCFrontDocument_SkipsBack(st0, sid, documentNumber, fullName, frontImageBase64) ==
    Bind(st0, LAMBDA st :
      LET f(s) ==
            LET k == IF IsSome(s.kycState) THEN Get(s.kycState)
                     ELSE FreshKycState(st)
            IN [s EXCEPT !.kycState =
                   Some([k EXCEPT !.documentNumber = documentNumber,
                                  !.fullName = fullName,
                                  !.frontImageBase64 = frontImageBase64,
                                  !.currentStep = SELFIE])]
      IN LogKyc(st, sid, "front", WithSession(st, sid, f)))

updateKYCFrontDocument(st0, sid, documentNumber, fullName, frontImageBase64) ==
    Bind(st0, LAMBDA st :
      LET f(s) ==
            LET k == IF IsSome(s.kycState) THEN Get(s.kycState)
                     ELSE FreshKycState(st)
            IN [s EXCEPT !.kycState =
                   Some([k EXCEPT !.documentNumber = documentNumber,
                                  !.fullName = fullName,
                                  !.frontImageBase64 = frontImageBase64,
                                  !.currentStep = BACK_DOCUMENT])]
      IN LogKyc(st, sid, "front", WithSession(st, sid, f)))

updateKYCBackDocument(st0, sid, backImageBase64) ==
    Bind(st0, LAMBDA st :
      LET f(s) == [s EXCEPT !.kycState =
                      Some([Get(@) EXCEPT !.backImageBase64 = backImageBase64,
                                          !.currentStep = SELFIE])]
      IN IF st.err = "" /\ getSessionError(st, sid) = ""
            /\ ~IsSome(st.sessions[sid].kycState)
         THEN Throw(st, "Error: KYC process not started")
         ELSE LogKyc(st, sid, "back", WithSession(st, sid, f)))

completeKYCProcess(st0, sid) ==
    Bind(st0, LAMBDA st :
      LET f(s) == [s EXCEPT !.kycState =
                      Some([Get(@) EXCEPT !.currentStep = COMPLETED,
                                          !.completedAt = Now(st)])]
      IN IF st.err = "" /\ getSessionError(st, sid) = ""
            /\ ~IsSome(st.sessions[sid].kycState)
         THEN Throw(st, "Error: KYC process not started")
         ELSE LogKyc(st, sid, "complete", WithSession(st, sid, f)))

clearKYCState(st0, sid) ==
    Bind(st0, LAMBDA st :
      LET f(s) == [s EXCEPT !.kycState = Absent, !.context = GENERAL]
      IN LogKyc(st, sid, "clear", WithSession(st, sid, f)))

\* find({sessionId}).sort({createdAt: 1}).skip(offset).limit(limit)
MessagesOf_AnySession(msgs, sid) == msgs

MessagesOf(msgs, sid) == SelectSeq(msgs, LAMBDA m : m.sessionId = sid)

(***************************************************************************)
(* Extraction gateway.  The outcome of a remote call is an input of the    *)
(* operator: FAIL (timeout, connection or HTTP error: the awaited promise  *)
(* rejects) or Ok(payload), the answer.                                    *)
(***************************************************************************)
FAIL == <<>>
Ok(x) == <<x>>
Failed(o) == o = <<>>
Payload(o) == o[1]

\* MicroservicesClientService.classifyIntent: response.data?.intent, null
\* when the call fails.  The payload is the intent type, None when the
\* answer carries no intent.
IntentPayloads == {"ticket_verification", "kyc_start", "other"}
classifyIntent(http) == IF Failed(http) THEN None ELSE Payload(http)

\* MicroservicesClientService.analyzeText: response.data, null when the call
\* fails.  The payload is the type of the intent of the NLPServiceResponse.
NlpPayloads == {"greeting", "complaint", "other"}
analyzeText(http) == IF Failed(http) THEN None ELSE Payload(http)

\* MicroservicesClientService.callOcrService: response.data, or
\* {success: false, error} when the call fails
OcrFailure ==
    [success |-> FALSE, ticket_id |-> <<>>, document_number |-> None,
     full_name |-> None, confidence |-> 0]
callOcrService(http) == IF Failed(http) THEN OcrFailure ELSE Payload(http)
extractTicketData(http) == callOcrService(http)
extractDocumentData(http) == callOcrService(http)

OcrPayload(ok, tid, doc, name, conf) ==
    [success |-> ok, ticket_id |-> tid, document_number |-> doc,
     full_name |-> name, confidence |-> conf]

(***************************************************************************)
(* MultimodalService.  The content of a completion is its free text (the   *)
(* words in it) and the JSON object found in it, if any.  Confidences are  *)
(* in hundredths.                                                          *)
(***************************************************************************)
\* badJson: the text has a brace-delimited span that JSON.parse rejects
Content(words, json) == [words |-> words, json |-> json, badJson |-> FALSE]
EmptyContent == Content({}, Absent)

\* the keys of ANALYSIS_PROMPTS
ANALYSIS_PROMPTS == {"ticket_verification", "kyc_document", "kyc_selfie", "general"}

VisionFailure ==
    [threw |-> FALSE, success |-> FALSE, rawResponse |-> EmptyContent,
     extractedData |-> Absent]

\* validateTicketData, validateDocumentData, validateSelfieData, or the
\* parsed object itself
parseResponse(analysisType, content) ==
    IF ~IsSome(content.json) THEN Absent
    ELSE LET data == Get(content.json)
         IN IF analysisType = "ticket_verification"
            THEN Some([ticketId |-> data.ticketId, confidence |-> data.confidence])
            ELSE IF analysisType = "kyc_document"
            THEN Some([documentNumber |-> data.documentNumber,
                       fullName |-> data.fullName,
                       confidence |-> data.confidence])
            ELSE content.json

\* faulty variant: a failure of the vision call is not caught
analyzeImage_Rethrows(configured, analysisType, nImages, oa) ==
    IF ~configured THEN VisionFailure
    ELSE IF nImages = 0 THEN [VisionFailure EXCEPT !.threw = TRUE]
    ELSE IF analysisType \notin ANALYSIS_PROMPTS THEN [VisionFailure EXCEPT !.threw = TRUE]
    ELSE IF Failed(oa) THEN [VisionFailure EXCEPT !.threw = TRUE]
    ELSE [threw |-> FALSE, success |-> TRUE, rawResponse |-> Payload(oa),
          extractedData |-> parseResponse(analysisType, Payload(oa))]

\* analyzeImage: oa is the outcome of OpenAIService.analyzeWithVision.
\* buildVisionContent reads ANALYSIS_PROMPTS[analysisType].userPrompt inside
\* the try block, so an analysis type without prompts ends in the catch.
analyzeImage(configured, analysisType, nImages, oa) ==
    IF ~configured THEN VisionFailure
    ELSE IF nImages = 0 THEN [VisionFailure EXCEPT !.threw = TRUE]
    ELSE IF analysisType \notin ANALYSIS_PROMPTS THEN VisionFailure
    ELSE IF Failed(oa) THEN VisionFailure
    ELSE [threw |-> FALSE, success |-> TRUE, rawResponse |-> Payload(oa),
          extractedData |-> parseResponse(analysisType, Payload(oa))]

analyzeTicket(configured, nImages, oa) ==
    analyzeImage(configured, "ticket_verification", nImages, oa)
analyzeDocument(configured, nImages, oa) ==
    analyzeImage(configured, "kyc_document", nImages, oa)

\* generateTicketContextResponse: web is the outcome of chatWithWebSearch
\* (which itself falls back to chat), plain that of the fallback chat
GEN_UNAVAILABLE == "followup_unavailable"
GEN_ERROR == "followup_error"
generateTicketContextResponse(configured, betData, web, plain) ==
    IF ~configured THEN [kind |-> GEN_UNAVAILABLE, about |-> <<>>]
    ELSE IF ~Failed(web) THEN [kind |-> Payload(web), about |-> betData.betLocalId]
    ELSE IF ~Failed(plain) THEN [kind |-> Payload(plain), about |-> betData.betLocalId]
    ELSE [kind |-> GEN_ERROR, about |-> <<>>]

(***************************************************************************)
(* BackofficeService.  The ledger is read-only.  dbFail: the query rejects.*)
(***************************************************************************)
Event(name, result) == [name |-> name, result |-> result]
Bet85426 ==
    [betLocalId |-> Id0000085426, result |-> "Lost", betType |-> "Multiple",
     events |-> <<Event("e1", "Lost"), Event("e2", "Won")>>]
Ledger == {Bet85426}

\* betLocalId.replace(/^0+/, '')
RECURSIVE StripZeros(_)
StripZeros(id) ==
    IF id # <<>> /\ id[1] = 0 THEN StripZeros(Tail(id)) ELSE id
\* betLocalId.padStart(10, '0')
RECURSIVE PadStart10(_)
PadStart10(id) == IF Len(id) >= 10 THEN id ELSE PadStart10(<<0>> \o id)

\* betModel.findOne({$or: [literal, normalizedId, paddedId]}) on a collection
BetsMatchingIn(bets, betLocalId) ==
    {b \in bets : b.betLocalId \in {betLocalId, StripZeros(betLocalId),
                                    PadStart10(betLocalId)}}
BetsMatching(betLocalId) == BetsMatchingIn(Ledger, betLocalId)

\* {found, bet}: found is false when no record matches or the query fails
findBetByLocalIdIn(bets, betLocalId, dbFail) ==
    IF dbFail \/ BetsMatchingIn(bets, betLocalId) = {}
    THEN [found |-> FALSE, bet |-> Absent]
    ELSE [found |-> TRUE,
          bet |-> Some(CHOOSE b \in BetsMatchingIn(bets, betLocalId) : TRUE)]
findBetByLocalId(betLocalId, dbFail) == findBetByLocalIdIn(Ledger, betLocalId, dbFail)

requiresHumanAttention(bet) ==
    \/ bet.result \in {"Canceled", "Cancelled"}
    \/ \E i \in 1..Len(bet.events) :
          bet.events[i].result \in {"Canceled", "Cancelled", "Void"}

LossKeywords == {"perdido", "perdió", "perdi", "perdida", "porque perdi", "por que perdi"}
CancelKeywords == {"cancelado", "cancelada", "anulado", "anulada", "cancelaron", "anularon"}
isAskingAboutLoss(question) == \E kw \in LossKeywords : Includes(question, kw)
isAskingAboutCancellation(question) == \E kw \in CancelKeywords : Includes(question, kw)

\* A reply is its fixed text (kind), the id it names, the optional parts
\* appended to it and the legs it names as lost.
Reply(kind) == [kind |-> kind, id |-> <<>>, parts |-> {}, legs |-> {}]

LostEvents(bet) ==
    {bet.events[i].name : i \in {j \in 1..Len(bet.events) : bet.events[j].result = "Lost"}}

\* question is optional (Absent: undefined or '')
formatBetResponse(bet, question) ==
    LET base == [Reply("bet_info") EXCEPT !.id = bet.betLocalId]
        asked == IsSome(question)
        loss == asked /\ isAskingAboutLoss(Get(question)) /\ LostEvents(bet) # {}
        cancel == asked /\ isAskingAboutCancellation(Get(question))
    IN IF requiresHumanAttention(bet)
       THEN [base EXCEPT !.parts = {"human_review"}]
       ELSE [base EXCEPT
               !.parts = (IF loss THEN {"loss_breakdown"} ELSE {})
                         \cup (IF cancel THEN {"no_cancellation"} ELSE {}),
               !.legs = IF loss THEN LostEvents(bet) ELSE {}]

\* player.verificationAndLocks?.verify === true
isPlayerVerified(player) == player.verify = TRUE

\* the lookup by account id; found is false for an unknown account and when
\* the query fails
findPlayerByAccountPlayerId(pl, playerId, dbFail) ==
    IF dbFail \/ playerId \notin DOMAIN pl
    THEN [found |-> FALSE, player |-> Absent]
    ELSE [found |-> TRUE, player |-> Some(pl[playerId])]

getPlayerDocumentNumber(player) == player.documentNumber

isDocumentRegisteredToOtherPlayer(pl, documentNumber, playerId, dbFail) ==
    /\ ~dbFail
    /\ \E p \in DOMAIN pl : p # playerId /\ pl[p].documentNumber = documentNumber

\* marks the identity record verified and writes the document number back
setPlayerVerified(pl, playerId, documentNumber, dbFail) ==
    IF dbFail \/ playerId \notin DOMAIN pl
    THEN [success |-> FALSE, players |-> pl]
    ELSE [success |-> TRUE,
          players |-> [pl EXCEPT ![playerId] =
                          [verify |-> TRUE, documentNumber |-> documentNumber]]]

(***************************************************************************)
(* TicketVerificationService (the version the flow router calls: it        *)
(* resolves the id against the ledger and returns the bet).                *)
(***************************************************************************)
TicketResult(ok, tid, bet, conf, error, calls) ==
    [success |-> ok, ticketId |-> tid, bet |-> bet, confidence |-> conf,
     error |-> error, calls |-> calls]

verifyTicket(configured, oa, ocrHttp, dbFail) ==
    LET visionResult == analyzeTicket(configured, 1, oa)
        hasData == visionResult.success /\ IsSome(visionResult.extractedData)
        visionId == IF hasData THEN Get(visionResult.extractedData).ticketId ELSE <<>>
        visionConf == IF hasData THEN Get(visionResult.extractedData).confidence ELSE 0
        ocrResult == extractTicketData(ocrHttp)
        ocrHit == visionId = <<>> /\ ocrResult.success /\ ocrResult.ticket_id # <<>>
        ticketId == IF visionId # <<>> THEN visionId
                    ELSE IF ocrHit THEN ocrResult.ticket_id ELSE <<>>
        confidence == IF visionId # <<>> THEN visionConf
                      ELSE IF ocrHit
                      THEN (IF ocrResult.confidence # 0 THEN ocrResult.confidence ELSE 70)
                      ELSE visionConf
        calls1 == {"vision_ticket"} \cup (IF visionId = <<>> THEN {"ocr_ticket"} ELSE {})
        betResult == findBetByLocalId(ticketId, dbFail)
    IN IF ticketId = <<>>
       THEN TicketResult(FALSE, <<>>, Absent, 0, "could_not_identify_ticket", calls1)
       ELSE IF ~betResult.found
       THEN TicketResult(FALSE, ticketId, Absent, confidence, "no_bet_found",
                         calls1 \cup {"ledger"})
       ELSE TicketResult(TRUE, ticketId, betResult.bet, confidence, "",
                         calls1 \cup {"ledger"})

formatTicketResponse(result, userQuestion) ==
    IF ~result.success
    THEN [Reply("ticket_error") EXCEPT !.id = result.ticketId,
                                       !.parts = {result.error}]
    ELSE formatBetResponse(Get(result.bet), userQuestion)

(***************************************************************************)
(* KYCVerificationService                                                  *)
(***************************************************************************)
FACE_MATCH_THRESHOLD == 60

StageResult(ok, doc, name, errors, calls) ==
    [success |-> ok, documentNumber |-> doc, fullName |-> name,
     validationErrors |-> errors, calls |-> calls]

\* a || b on optional strings
OrElse(a, b) == IF a # None THEN a ELSE b

\* faulty variant: the document is not looked up under other accounts
verifyFrontDocument_NoDuplicateCheck(configured, pl, playerId, oa, ocrHttp, idFail, dupFail) ==
    LET visionResult == analyzeDocument(configured, 1, oa)
        hasData == visionResult.success /\ IsSome(visionResult.extractedData)
        doc1 == IF hasData THEN Get(visionResult.extractedData).documentNumber ELSE None
        name1 == IF hasData THEN Get(visionResult.extractedData).fullName ELSE None
        needOcr == doc1 = None \/ name1 = None
        ocrResult == extractDocumentData(ocrHttp)
        useOcr == needOcr /\ ocrResult.success
        documentNumber == IF useOcr THEN OrElse(doc1, ocrResult.document_number) ELSE doc1
        fullName == IF useOcr THEN OrElse(name1, ocrResult.full_name) ELSE name1
        calls1 == {"vision_document"} \cup (IF needOcr THEN {"ocr_document"} ELSE {})
        playerResult == findPlayerByAccountPlayerId(pl, playerId, idFail)
        playerDocNumber == IF playerResult.found
                           THEN getPlayerDocumentNumber(Get(playerResult.player))
                           ELSE None
        errName == IF fullName = None THEN <<"no_full_name">> ELSE <<>>
        errMismatch == IF playerDocNumber # None /\ playerDocNumber # documentNumber
                       THEN <<"document_mismatch">> ELSE <<>>
        errDup == <<>>
        validationErrors == errName \o errMismatch \o errDup
    IN IF documentNumber = None
       THEN StageResult(FALSE, None, None, <<"no_document_number">>, calls1)
       ELSE StageResult(validationErrors = <<>>, documentNumber, fullName,
                        validationErrors,
                        calls1 \cup {"identity_compare", "duplicate_check"})

verifyFrontDocument(configured, pl, playerId, oa, ocrHttp, idFail, dupFail) ==
    LET visionResult == analyzeDocument(configured, 1, oa)
        hasData == visionResult.success /\ IsSome(visionResult.extractedData)
        doc1 == IF hasData THEN Get(visionResult.extractedData).documentNumber ELSE None
        name1 == IF hasData THEN Get(visionResult.extractedData).fullName ELSE None
        needOcr == doc1 = None \/ name1 = None
        ocrResult == extractDocumentData(ocrHttp)
        useOcr == needOcr /\ ocrResult.success
        documentNumber == IF useOcr THEN OrElse(doc1, ocrResult.document_number) ELSE doc1
        fullName == IF useOcr THEN OrElse(name1, ocrResult.full_name) ELSE name1
        calls1 == {"vision_document"} \cup (IF needOcr THEN {"ocr_document"} ELSE {})
        playerResult == findPlayerByAccountPlayerId(pl, playerId, idFail)
        playerDocNumber == IF playerResult.found
                           THEN getPlayerDocumentNumber(Get(playerResult.player))
                           ELSE None
        errName == IF fullName = None THEN <<"no_full_name">> ELSE <<>>
        errMismatch == IF playerDocNumber # None /\ playerDocNumber # documentNumber
                       THEN <<"document_mismatch">> ELSE <<>>
        errDup == IF isDocumentRegisteredToOtherPlayer(pl, documentNumber, playerId, dupFail)
                  THEN <<"duplicate_registration">> ELSE <<>>
        validationErrors == errName \o errMismatch \o errDup
    IN IF documentNumber = None
       THEN StageResult(FALSE, None, None, <<"no_document_number">>, calls1)
       ELSE StageResult(validationErrors = <<>>, documentNumber, fullName,
                        validationErrors,
                        calls1 \cup {"identity_compare", "duplicate_check"})

\* the JSON the back-document prompt asks for:
\* {isBackOfDocument, isVisible, isClear, confidence, issues}
\* verifyBackDocument from the answer of the analysis on (lines 619-690)
verifyBackDocumentOn(visionResult) ==
    LET raw == visionResult.rawResponse
        data == Get(raw.json)
        jsonErrors ==
            (IF ~data.isBackOfDocument THEN <<"not_back_of_document">> ELSE <<>>)
            \o (IF ~data.isVisible THEN <<"not_visible">> ELSE <<>>)
            \o (IF ~data.isClear THEN <<"not_clear">> ELSE <<>>)
            \o (IF data.issues THEN <<"issues">> ELSE <<>>)
        textOk == "no" \notin raw.words /\ "error" \notin raw.words
        isVisible ==
            IF ~visionResult.success THEN FALSE
            ELSE IF raw.badJson THEN TRUE
            ELSE IF IsSome(raw.json)
            THEN data.isBackOfDocument /\ data.isVisible /\ data.isClear
            ELSE textOk
        errors1 ==
            IF ~visionResult.success THEN <<"analysis_error">>
            ELSE IF raw.badJson THEN <<>>
            ELSE IF IsSome(raw.json) THEN jsonErrors
            ELSE IF ~textOk THEN <<"could_not_verify_back">> ELSE <<>>
        success == errors1 = <<>> /\ isVisible
        validationErrors ==
            IF ~success /\ errors1 = <<>> THEN <<"requirements_not_met">> ELSE errors1
    IN StageResult(success, None, None, validationErrors, {"vision_back"})

verifyBackDocument(configured, oa) ==
    verifyBackDocumentOn(analyzeImage(configured, "document", 1, oa))

\* the JSON the selfie prompt asks for: {facesDetected, isHoldingDocument,
\* faceMatchConfidence, isClear, confidence, issues}
\* verifySelfieWithDocument from the answer of the analysis on (lines 749-821)
verifySelfieWithDocumentOn(selfieResult) ==
    LET raw == selfieResult.rawResponse
        parsed == selfieResult.success /\ ~raw.badJson /\ IsSome(raw.json)
        data == Get(raw.json)
        facesDetected == IF ~selfieResult.success THEN 0
                         ELSE IF parsed THEN data.facesDetected ELSE 1
        isHoldingDocument == IF ~selfieResult.success THEN FALSE
                             ELSE IF parsed THEN data.isHoldingDocument ELSE TRUE
        faceMatchConfidence == IF ~selfieResult.success THEN 0
                               ELSE IF parsed THEN data.faceMatchConfidence ELSE 80
        validationErrors ==
            IF ~parsed THEN <<>>
            ELSE (IF facesDetected = 0 THEN <<"no_face">>
                  ELSE IF facesDetected > 1 THEN <<"multiple_faces">> ELSE <<>>)
                 \o (IF ~isHoldingDocument THEN <<"not_holding_document">> ELSE <<>>)
                 \o (IF faceMatchConfidence < FACE_MATCH_THRESHOLD
                     THEN <<"face_mismatch">> ELSE <<>>)
                 \o (IF ~data.isClear THEN <<"not_clear">> ELSE <<>>)
                 \o (IF data.issues THEN <<"issues">> ELSE <<>>)
        success == validationErrors = <<>> /\ faceMatchConfidence >= FACE_MATCH_THRESHOLD
    IN StageResult(success, None, None, validationErrors, {"vision_selfie"})

verifySelfieWithDocument(configured, oa) ==
    verifySelfieWithDocumentOn(analyzeImage(configured, "selfie", 2, oa))

(***************************************************************************)
(* OrchestratorService.  dto = [sessionId, playerId, content, images];     *)
(* images is the sequence of the base64 fields (None: an image given by    *)
(* url only).  e holds the outcome of every remote call the turn may make. *)
(***************************************************************************)
FOLLOWUP_PROMPT == "followup_prompt"
WithFollowUpPrompt(reply) == [reply EXCEPT !.parts = @ \cup {FOLLOWUP_PROMPT}]

Out(st, response) == [st |-> st, response |-> response]

handleTicketVerificationWithContext(st0, sid, configured, e, userQuestion) ==
    Bind(st0, LAMBDA st :
      Bind(verifyTicket(configured, e.oaTicket, e.ocrTicket, e.ledgerFail),
           LAMBDA result :
      LET st1 == [st EXCEPT !.calls = @ \cup result.calls]
          st2 == IF result.success /\ IsSome(result.bet) /\ result.ticketId # <<>>
                 THEN setLastVerifiedTicket(st1, sid, result.ticketId, Get(result.bet))
                 ELSE st1
          st3 == IF result.success
                 THEN [st2 EXCEPT !.resolved = Some([ticketId |-> result.ticketId,
                                                      bet |-> Get(result.bet)])]
                 ELSE st2
          response == formatTicketResponse(result, userQuestion)
      IN Out(st3, IF result.success THEN WithFollowUpPrompt(response) ELSE response)))

handleTicketVerificationByText(st0, sid, ticketId, userQuestion, e) ==
    Bind(st0, LAMBDA st :
      LET betResult == findBetByLocalId(ticketId, e.ledgerFail)
          st1 == Called(Emit(st, STEP_QUERYING_API, 30), "ledger")
          st2 == Emit(setLastVerifiedTicket(Emit(st1, STEP_GENERATING_RESPONSE, 70),
                                            sid, ticketId, Get(betResult.bet)),
                      STEP_COMPLETED, 100)
          st3 == [st2 EXCEPT !.resolved = Some([ticketId |-> ticketId,
                                                 bet |-> Get(betResult.bet)])]
      IN IF ~betResult.found \/ ~IsSome(betResult.bet)
         THEN Out(st1, [Reply("no_bet_found") EXCEPT !.id = ticketId])
         ELSE Out(st3, WithFollowUpPrompt(
                          formatBetResponse(Get(betResult.bet), Some(userQuestion)))))

ValidationReply(kind, result) ==
    [Reply(kind) EXCEPT !.parts = {result.validationErrors[i] :
                                      i \in 1..Len(result.validationErrors)}]

\* updateStatus(success ? COMPLETED : ERROR, ..., 100)
TerminalStatus(success) == Status(IF success THEN STEP_COMPLETED ELSE STEP_ERROR, 100)

\* the checkpoints a stage verification hands to onStatusUpdate on the way to
\* result: the front stage returns at a missing document number before it
\* reaches its last updateStatus
StageStatuses(name, result) ==
    IF name = FRONT_DOCUMENT
    THEN <<Status(STEP_RECEIVED, 10), Status(STEP_ANALYZING_IMAGE, 20)>>
         \o (IF "ocr_document" \in result.calls
             THEN <<Status(STEP_EXTRACTING_TEXT, 40)>> ELSE <<>>)
         \o (IF result.documentNumber = None THEN <<>>
             ELSE <<Status(STEP_VERIFYING_DOCUMENT, 60), TerminalStatus(result.success)>>)
    ELSE IF name = BACK_DOCUMENT
    THEN <<Status(STEP_RECEIVED, 10), Status(STEP_ANALYZING_IMAGE, 30),
           TerminalStatus(result.success)>>
    ELSE <<Status(STEP_RECEIVED, 10), Status(STEP_ANALYZING_IMAGE, 30),
           Status(STEP_COMPARING_FACES, 70), TerminalStatus(result.success)>>

Staged(st, name, result) ==
    [st EXCEPT !.calls = @ \cup result.calls,
               !.stage = Some([name |-> name, success |-> result.success,
                               documentNumber |-> result.documentNumber,
                               validationErrors |-> result.validationErrors,
                               statuses |-> StageStatuses(name, result)])]

\* faulty variant: the extracted fields are stored and the stage advanced before
\* the result of the verification is looked at
processKYCFrontDocument_AdvancesAnyway(st0, sid, playerId, imageBase64, configured, e) ==
    Bind(st0, LAMBDA st :
      Bind(verifyFrontDocument(configured, st.players, playerId, e.oaDoc,
                               e.ocrDoc, e.idFail2, e.dupFail),
           LAMBDA result :
      LET st1 == updateKYCFrontDocument(Staged(st, FRONT_DOCUMENT, result), sid,
                                        result.documentNumber, result.fullName,
                                        imageBase64)
      IN IF ~result.success
         THEN Out(st1, ValidationReply("kyc_front_problem", result))
         ELSE Out(st1, [Reply("kyc_front_verified") EXCEPT !.parts =
                           {result.documentNumber, result.fullName}])))

processKYCFrontDocument(st0, sid, playerId, imageBase64, configured, e) ==
    Bind(st0, LAMBDA st :
      Bind(verifyFrontDocument(configured, st.players, playerId, e.oaDoc,
                               e.ocrDoc, e.idFail2, e.dupFail),
           LAMBDA result :
      LET st1 == Staged(st, FRONT_DOCUMENT, result)
      IN IF ~result.success
         THEN Out(st1, ValidationReply("kyc_front_problem", result))
         ELSE Out(updateKYCFrontDocument(st1, sid, result.documentNumber,
                                         IF result.fullName = None THEN ""
                                         ELSE result.fullName, imageBase64),
                  [Reply("kyc_front_verified") EXCEPT !.parts =
                      {result.documentNumber, result.fullName}])))

\* processKYCBackDocument, result being what verifyBackDocument returned
processKYCBackDocumentOn(st0, sid, imageBase64, result0) ==
    Bind(st0, LAMBDA st :
      Bind(result0, LAMBDA result :
      LET st1 == Staged(st, BACK_DOCUMENT, result)
      IN IF ~result.success
         THEN Out(st1, ValidationReply("kyc_back_problem", result))
         ELSE Out(updateKYCBackDocument(st1, sid, imageBase64),
                  Reply("kyc_back_verified"))))

processKYCBackDocument(st0, sid, imageBase64, configured, e) ==
    processKYCBackDocumentOn(st0, sid, imageBase64,
                             verifyBackDocument(configured, e.oaBack))

\* processKYCSelfie, result being what verifySelfieWithDocument returns when
\* it is called
processKYCSelfieOn_CompletesFirst(st0, sid, playerId, imageBase64, result, markFail) ==
    Bind(st0, LAMBDA st :
      LET kycState == getKYCState(st, sid)
          k == Get(kycState)
          st1 == Staged(st, SELFIE, result)
          updateResult == setPlayerVerified(st.players, playerId, k.documentNumber,
                                            markFail)
          st2 == [Called(st1, "mark_verified") EXCEPT !.players = updateResult.players]
      IN IF ~IsSome(kycState) \/ k.frontImageBase64 = None \/ k.documentNumber = None
         THEN Out(clearKYCState(st, sid), Reply("kyc_restart"))
         ELSE IF ~result.success
         THEN Out(st1, ValidationReply("kyc_selfie_problem", result))
         ELSE IF ~updateResult.success
         THEN Out(completeKYCProcess(st2, sid), Reply("kyc_account_update_problem"))
         ELSE Out(completeKYCProcess(st2, sid),
                  [Reply("kyc_success") EXCEPT !.parts = {k.documentNumber, k.fullName}]))

processKYCSelfieOn_NoPrecondition(st0, sid, playerId, imageBase64, result, markFail) ==
    Bind(st0, LAMBDA st :
      LET kycState == getKYCState(st, sid)
          k == Get(kycState)
          st1 == Staged(st, SELFIE, result)
          updateResult == setPlayerVerified(st.players, playerId, k.documentNumber,
                                            markFail)
          st2 == [Called(st1, "mark_verified") EXCEPT !.players = updateResult.players]
      IN IF ~IsSome(kycState)
         THEN Out(clearKYCState(st, sid), Reply("kyc_restart"))
         ELSE IF ~result.success
         THEN Out(st1, ValidationReply("kyc_selfie_problem", result))
         ELSE IF ~updateResult.success
         THEN Out(st2, Reply("kyc_account_update_problem"))
         ELSE Out(completeKYCProcess(st2, sid),
                  [Reply("kyc_success") EXCEPT !.parts = {k.documentNumber, k.fullName}]))

processKYCSelfieOn(st0, sid, playerId, imageBase64, result, markFail) ==
    Bind(st0, LAMBDA st :
      LET kycState == getKYCState(st, sid)
          k == Get(kycState)
          st1 == Staged(st, SELFIE, result)
          updateResult == setPlayerVerified(st.players, playerId, k.documentNumber,
                                            markFail)
          st2 == [Called(st1, "mark_verified") EXCEPT !.players = updateResult.players]
      IN IF ~IsSome(kycState) \/ k.frontImageBase64 = None \/ k.documentNumber = None
         THEN Out(clearKYCState(st, sid), Reply("kyc_restart"))
         ELSE IF ~result.success
         THEN Out(st1, ValidationReply("kyc_selfie_problem", result))
         ELSE IF ~updateResult.success
         THEN Out(st2, Reply("kyc_account_update_problem"))
         ELSE Out(completeKYCProcess(st2, sid),
                  [Reply("kyc_success") EXCEPT !.parts = {k.documentNumber, k.fullName}]))

processKYCSelfie(st0, sid, playerId, imageBase64, configured, e) ==
    processKYCSelfieOn(st0, sid, playerId, imageBase64,
                       verifySelfieWithDocument(configured, e.oaSelfie), e.markFail)

\* faulty variant: an image sent after the process is completed is taken as a
\* new front document
processKYCStep_ReopensCompleted(st2, step, sid, playerId, imageBase64, configured, e, backResult, selfieResult) ==
    CASE step \in {FRONT_DOCUMENT, NOT_STARTED, COMPLETED} ->
             processKYCFrontDocument(st2, sid, playerId, imageBase64, configured, e)
        [] step = BACK_DOCUMENT ->
             processKYCBackDocumentOn(st2, sid, imageBase64, backResult)
        [] step = SELFIE ->
             processKYCSelfieOn(st2, sid, playerId, imageBase64, selfieResult,
                                e.markFail)
        [] OTHER ->
             processKYCFrontDocument(initKYCProcess(st2, sid), sid, playerId,
                                     imageBase64, configured, e)

\* the switch of handleKYCFlow on the current step, for a turn with an image
processKYCStep(st2, step, sid, playerId, imageBase64, configured, e, backResult, selfieResult) ==
    CASE step \in {FRONT_DOCUMENT, NOT_STARTED} ->
             processKYCFrontDocument(st2, sid, playerId, imageBase64, configured, e)
        [] step = BACK_DOCUMENT ->
             processKYCBackDocumentOn(st2, sid, imageBase64, backResult)
        [] step = SELFIE ->
             processKYCSelfieOn(st2, sid, playerId, imageBase64, selfieResult,
                                e.markFail)
        [] step = COMPLETED -> Out(st2, Reply("kyc_already_completed"))
        [] OTHER ->
             processKYCFrontDocument(initKYCProcess(st2, sid), sid, playerId,
                                     imageBase64, configured, e)

\* handleKYCFlow, backResult and selfieResult being what verifyBackDocument
\* and verifySelfieWithDocument return when they are called
handleKYCFlowOn_NoVerifiedGate(st0, sid, playerId, imageBase64, configured, e, backResult, selfieResult) ==
    Bind(st0, LAMBDA st :
      LET playerResult == findPlayerByAccountPlayerId(st.players, playerId, e.idFail)
          st1 == Called(st, "identity_lookup")
          kycState0 == getKYCState(st1, sid)
          \* initialize KYC if not started
          st2 == IF IsSome(kycState0) THEN st1 ELSE initKYCProcess(st1, sid)
          step == Get(getKYCState(st2, sid)).currentStep
      IN IF playerId = None THEN Out(st, Reply("kyc_login_required"))
         ELSE IF ~playerResult.found \/ ~IsSome(playerResult.player)
         THEN Out(st1, Reply("kyc_account_not_found"))
         ELSE IF ~IsSome(kycState0) /\ imageBase64 = None
         THEN Out(initKYCProcess(st1, sid), Reply("kyc_instructions"))
         ELSE IF imageBase64 = None
         THEN Out(st2, CASE step = FRONT_DOCUMENT -> Reply("kyc_waiting_front")
                         [] step = BACK_DOCUMENT -> Reply("kyc_waiting_back")
                         [] step = SELFIE -> Reply("kyc_waiting_selfie")
                         [] OTHER -> Reply("kyc_how_can_i_help"))
         ELSE processKYCStep(st2, step, sid, playerId, imageBase64, configured, e,
                             backResult, selfieResult))

handleKYCFlowOn(st0, sid, playerId, imageBase64, configured, e, backResult, selfieResult) ==
    Bind(st0, LAMBDA st :
      LET playerResult == findPlayerByAccountPlayerId(st.players, playerId, e.idFail)
          st1 == Called(st, "identity_lookup")
          kycState0 == getKYCState(st1, sid)
          \* initialize KYC if not started
          st2 == IF IsSome(kycState0) THEN st1 ELSE initKYCProcess(st1, sid)
          step == Get(getKYCState(st2, sid)).currentStep
      IN IF playerId = None THEN Out(st, Reply("kyc_login_required"))
         ELSE IF ~playerResult.found \/ ~IsSome(playerResult.player)
         THEN Out(st1, Reply("kyc_account_not_found"))
         ELSE IF isPlayerVerified(Get(playerResult.player))
         THEN Out(st1, Reply("kyc_already_verified"))
         ELSE IF ~IsSome(kycState0) /\ imageBase64 = None
         THEN Out(initKYCProcess(st1, sid), Reply("kyc_instructions"))
         ELSE IF imageBase64 = None
         THEN Out(st2, CASE step = FRONT_DOCUMENT -> Reply("kyc_waiting_front")
                         [] step = BACK_DOCUMENT -> Reply("kyc_waiting_back")
                         [] step = SELFIE -> Reply("kyc_waiting_selfie")
                         [] OTHER -> Reply("kyc_how_can_i_help"))
         ELSE processKYCStep(st2, step, sid, playerId, imageBase64, configured, e,
                             backResult, selfieResult))

handleKYCFlow(st0, sid, playerId, imageBase64, configured, e) ==
    handleKYCFlowOn(st0, sid, playerId, imageBase64, configured, e,
                    verifyBackDocument(configured, e.oaBack),
                    verifySelfieWithDocument(configured, e.oaSelfie))

TicketKeywords == {"ticket", "apuesta", "boleto", "jugada"}

\* content: dto.content, Absent standing for undefined and for ''
handleGeneralQuery(st0, content, images, configured, e) ==
    Bind(st0, LAMBDA st :
      LET text == textLower(content)
          ticketId == extractTicketId(text)
          betResult == findBetByLocalId(ticketId, e.ledgerFail)
          visionResult == analyzeImage(configured, "general", Len(images), e.oaDescribe)
          stV == IF Len(images) > 0 THEN Called(st, "vision_describe") ELSE st
          mentionsTicket == \E kw \in TicketKeywords : Includes(text, kw)
          nlpResult == analyzeText(e.nlp)
          stN == Called(stV, "analyzeText")
      IN IF ticketId # <<>>
         THEN IF betResult.found /\ IsSome(betResult.bet)
              THEN Out([Called(st, "ledger") EXCEPT !.resolved =
                           Some([ticketId |-> ticketId, bet |-> Get(betResult.bet)])],
                       formatBetResponse(Get(betResult.bet), content))
              ELSE Out(Called(st, "ledger"), [Reply("no_bet_found") EXCEPT !.id = ticketId])
         ELSE IF Len(images) > 0 /\ visionResult.threw
         THEN Out(Throw(stV, "BadRequestException: At least one image is required"),
                  Reply(""))
         ELSE IF Len(images) > 0 /\ visionResult.success
         THEN Out(stV, [Reply("vision_description") EXCEPT
                           !.parts = visionResult.rawResponse.words])
         ELSE IF IsSome(content) /\ mentionsTicket
         THEN Out(stV, Reply("ask_for_ticket_id"))
         ELSE IF IsSome(content) /\ nlpResult # None
         THEN Out(stN, Reply(CASE nlpResult = "greeting" -> "greeting"
                               [] nlpResult = "farewell" -> "farewell"
                               [] nlpResult = "account_query" -> "account_query"
                               [] nlpResult = "bet_history" -> "bet_history"
                               [] nlpResult = "complaint" -> "complaint"
                               [] OTHER -> "tell_me_more"))
         ELSE Out(IF IsSome(content) THEN stN ELSE stV, Reply("how_can_i_help")))

\* dto.images[0].base64, undefined when the turn has no image or the image
\* is given by url
firstBase64(images) == IF Len(images) > 0 THEN images[1] ELSE None

ClassifierTicket == {"ticket", "apuesta", "boleto"}
ClassifierDocument == {"cédula", "cedula", "documento", "identidad"}
ClassifierSelfie == {"selfie", "rostro", "persona"}

Turn(st, response, flowType) == [st |-> st, response |-> response, flowType |-> flowType]

\* the switch of processMessage on the flow type
dispatch(st0, dto, flowType, configured, e) ==
    Bind(st0, LAMBDA st :
      LET sid == dto.sessionId
          hasImages == Len(dto.images) > 0
          ticketIdFromText == extractTicketId(Get(dto.content))
      IN IF flowType = TICKET_VERIFICATION
         THEN IF hasImages
              THEN handleTicketVerificationWithContext(st, sid, configured, e, dto.content)
              ELSE IF hasText(dto.content)
              THEN IF ticketIdFromText # <<>>
                   THEN handleTicketVerificationByText(st, sid, ticketIdFromText,
                                                       Get(dto.content), e)
                   ELSE Out(st, Reply("ask_for_ticket_id_or_photo_example"))
              ELSE Out(st, Reply("ask_for_ticket_id_or_photo"))
         ELSE IF flowType \in {KYC_DOCUMENT, KYC_SELFIE}
         THEN handleKYCFlow(st, sid, dto.playerId,
                            IF hasImages THEN firstBase64(dto.images) ELSE None,
                            configured, e)
         ELSE handleGeneralQuery(st, dto.content, dto.images, configured, e))

processMessage(st0, dto, configured, e) ==
    Bind(st0, LAMBDA st :
      LET sid == dto.sessionId
          hasImages == Len(dto.images) > 0
          text == textLower(dto.content)
          ticketContext == getLastVerifiedTicket(st, sid)
          inContext == IsSome(ticketContext) /\ hasText(dto.content)
          \* exit branch
          exitReply == Reply("left_ticket_context")
          \* follow-up branch
          generated == generateTicketContextResponse(configured, Get(ticketContext).betData,
                                                     e.genWeb, e.genPlain)
          answer == [Reply(generated.kind) EXCEPT !.id = generated.about]
          stF == [st EXCEPT !.calls = @ \cup
                     (IF configured THEN {"generate_answer"} ELSE {})
                     \cup (IF configured /\ Failed(e.genWeb)
                           THEN {"generate_fallback"} ELSE {})]
          \* classification
          intent == IF hasText(dto.content) THEN classifyIntent(e.intent) ELSE None
          st1 == IF hasText(dto.content) THEN Called(st, "classifyIntent") ELSE st
          flow1 == IF intent = "ticket_verification" THEN TICKET_VERIFICATION
                   ELSE IF intent \in {"kyc_start", "kyc_upload"} THEN KYC_DOCUMENT
                   ELSE GENERAL_QUERY
          classifyImage == hasImages /\ flow1 = GENERAL_QUERY
          visionResult == analyzeImage(configured, "general", 1, e.visClass)
          words == visionResult.rawResponse.words
          st2 == IF ~classifyImage THEN st1
                 ELSE IF visionResult.threw
                 THEN Throw(Called(st1, "vision_classify"),
                            "BadRequestException: At least one image is required")
                 ELSE Called(st1, "vision_classify")
          flowType ==
              IF ~classifyImage \/ ~visionResult.success THEN flow1
              ELSE IF words \cap ClassifierTicket # {} THEN TICKET_VERIFICATION
              ELSE IF words \cap ClassifierDocument # {} THEN KYC_DOCUMENT
              ELSE IF words \cap ClassifierSelfie # {} THEN KYC_SELFIE
              ELSE flow1
      IN IF getSessionError(st, sid) # ""
         THEN Turn(Throw(st, getSessionError(st, sid)), Reply(""), GENERAL_QUERY)
         ELSE IF inContext /\ wantsToExit(text)
         THEN Turn(addMessage(clearTicketContext(st, sid), sid, ASSISTANT, exitReply),
                   exitReply, GENERAL_QUERY)
         ELSE IF inContext /\ ~hasImages /\ isFollowUp(text)
         THEN Turn(addMessage(stF, sid, ASSISTANT, answer), answer, TICKET_VERIFICATION)
         ELSE IF st2.err # "" THEN Turn(st2, Reply(""), flow1)
         ELSE Bind(dispatch(st2, dto, flowType, configured, e), LAMBDA handled :
                Turn(addMessage(handled.st, sid, ASSISTANT, handled.response),
                     handled.response, flowType)))

(***************************************************************************)
(* The inputs of a turn and the outcomes of the remote calls it makes.     *)
(***************************************************************************)
TurnInputs ==
    {[content |-> c, images |-> <<>>] : c \in Contents}
    \cup {[content |-> c, images |-> <<"imgA">>] : c \in ImageContents}

GoodTicketJson == Some([ticketId |-> Id0000085426, confidence |-> 90])
NoTicketJson == Some([ticketId |-> <<>>, confidence |-> 20])
DocJson(doc, name) == Some([documentNumber |-> doc, fullName |-> name, confidence |-> 90])
BackJson == Some([isBackOfDocument |-> TRUE, isVisible |-> TRUE, isClear |-> TRUE,
                  issues |-> FALSE])
SelfieJson(conf) ==
    Some([facesDetected |-> 1, isHoldingDocument |-> TRUE, faceMatchConfidence |-> conf,
          isClear |-> TRUE, issues |-> FALSE])

\* one entry per remote call: the field of e holding its outcome, the call,
\* whether the call goes to the vision model, and the outcomes considered
EnvFields ==
    << [name |-> "intent", call |-> "classifyIntent", openai |-> FALSE,
        full |-> {FAIL} \cup {Ok(i) : i \in IntentPayloads}],
       [name |-> "visClass", call |-> "vision_classify", openai |-> TRUE,
        full |-> {FAIL, Ok(Content({"ticket"}, Absent)), Ok(Content({"cedula"}, Absent)),
                  Ok(Content({"selfie"}, Absent)), Ok(Content({"paisaje"}, Absent))}],
       [name |-> "genWeb", call |-> "generate_answer", openai |-> TRUE,
        full |-> {FAIL, Ok("followup_answer")}],
       [name |-> "genPlain", call |-> "generate_fallback", openai |-> TRUE,
        full |-> {FAIL, Ok("followup_plain_answer")}],
       [name |-> "oaTicket", call |-> "vision_ticket", openai |-> TRUE,
        full |-> {FAIL, Ok(Content({}, GoodTicketJson)), Ok(Content({}, NoTicketJson))}],
       [name |-> "ocrTicket", call |-> "ocr_ticket", openai |-> FALSE,
        full |-> {FAIL, Ok(OcrPayload(TRUE, Id0000099999, None, None, 80))}],
       [name |-> "ledgerFail", call |-> "ledger", openai |-> FALSE, full |-> BOOLEAN],
       [name |-> "idFail", call |-> "identity_lookup", openai |-> FALSE, full |-> BOOLEAN],
       [name |-> "oaDoc", call |-> "vision_document", openai |-> TRUE,
        full |-> {FAIL, Ok(Content({}, DocJson("D1", "N1"))),
                  Ok(Content({}, DocJson("D2", "N1"))),
                  Ok(Content({}, DocJson("D2", None)))}],
       [name |-> "ocrDoc", call |-> "ocr_document", openai |-> FALSE,
        full |-> {FAIL, Ok(OcrPayload(TRUE, <<>>, "D2", "N1", 80))}],
       [name |-> "idFail2", call |-> "identity_compare", openai |-> FALSE, full |-> BOOLEAN],
       [name |-> "dupFail", call |-> "duplicate_check", openai |-> FALSE, full |-> BOOLEAN],
       [name |-> "oaBack", call |-> "vision_back", openai |-> TRUE,
        full |-> {FAIL, Ok(Content({}, BackJson))}],
       [name |-> "oaSelfie", call |-> "vision_selfie", openai |-> TRUE,
        full |-> {FAIL, Ok(Content({}, SelfieJson(90))), Ok(Content({}, SelfieJson(40)))}],
       [name |-> "markFail", call |-> "mark_verified", openai |-> FALSE, full |-> BOOLEAN],
       [name |-> "oaDescribe", call |-> "vision_describe", openai |-> TRUE,
        full |-> {FAIL, Ok(Content({"paisaje"}, Absent))}],
       [name |-> "nlp", call |-> "analyzeText", openai |-> FALSE,
        full |-> {FAIL} \cup {Ok(t) : t \in NlpPayloads}] >>

\* every remote call fails
AllFail ==
    [intent |-> FAIL, visClass |-> FAIL, genWeb |-> FAIL, genPlain |-> FAIL,
     oaTicket |-> FAIL, ocrTicket |-> FAIL, ledgerFail |-> TRUE, idFail |-> TRUE,
     oaDoc |-> FAIL, ocrDoc |-> FAIL, idFail2 |-> TRUE, dupFail |-> TRUE,
     oaBack |-> FAIL, oaSelfie |-> FAIL, markFail |-> TRUE, oaDescribe |-> FAIL,
     nlp |-> FAIL]

\* the calls of EnvFields[i..] that the turn r has made and that had an
\* outcome to choose
Made(r, i) ==
    {j \in i..Len(EnvFields) :
        /\ EnvFields[j].call \in r.st.calls
        /\ EnvFields[j].openai => openaiConfigured}
Min(S) == CHOOSE x \in S : \A y \in S : x <= y

\* The turns processMessage can take on dto: one for each combination of
\* outcomes of the calls it makes, chosen in the order it makes them; a call
\* the turn does not make has no outcome to choose.
RECURSIVE Turns(_, _, _, _)
Turns(st, dto, e, i) ==
    Bind(processMessage(st, dto, openaiConfigured, e), LAMBDA r :
    Bind(Made(r, i), LAMBDA made :
      IF made = {} THEN {r}
      ELSE Bind(Min(made), LAMBDA j :
             UNION { Turns(st, dto, [e EXCEPT ![EnvFields[j].name] = v], j + 1) :
                       v \in EnvFields[j].full })))

(***************************************************************************)
(* The system: the session store, the message collection, the identity     *)
(* store, and `last', the call a client has made and not yet taken the     *)
(* result of: what was asked, the session as it was before, and what came  *)
(* back.  Calls are made one at a time.                                    *)
(***************************************************************************)
Player(verify, documentNumber) == [verify |-> verify, documentNumber |-> documentNumber]
InitialPlayers == [p \in PlayerIds |-> IF p = "pA" THEN Player(FALSE, None)
                                       ELSE Player(TRUE, "D1")]

Obs(op, sid) ==
    [op |-> op, sid |-> sid, threw |-> FALSE, err |-> "", reply |-> Reply(""),
     flowType |-> None, calls |-> {}, pre |-> Absent, preLen |-> Len(messages),
     kyc |-> <<>>, stage |-> <<>>, resolved |-> <<>>, content |-> Absent,
     images |-> <<>>, playerId |-> None, result |-> <<>>,
     prePlayers |-> players, input |-> <<>>, statuses |-> <<>>]

Idle == [Obs("idle", None) EXCEPT !.preLen = 0]

Snapshot(sid) == IF sid \in DOMAIN sessions THEN Some(sessions[sid]) ELSE Absent

Init ==
    /\ sessions = <<>>
    /\ messages = <<>>
    /\ players = InitialPlayers
    /\ openaiConfigured \in BOOLEAN
    /\ inflight = NoDeliveries
    /\ last = Idle

SessionPlayerIds == {"pA"}

\* ChatService.createSession
CreateSession ==
    /\ last = Idle
    /\ \E sid \in NewIds \ DOMAIN sessions, playerId \in SessionPlayerIds :
        /\ sessions' = [s \in DOMAIN sessions \cup {sid} |->
                           IF s = sid THEN NewSession(playerId) ELSE sessions[s]]
        /\ last' = [Obs("createSession", sid) EXCEPT !.result = Some(NewSession(playerId))]
        /\ UNCHANGED <<messages, players, openaiConfigured, inflight>>

\* ChatService.getSession
GetSession ==
    /\ last = Idle
    /\ \E sid \in AllIds :
        LET err == getSessionError(StartSt, sid)
        IN /\ last' = [Obs("getSession", sid) EXCEPT
                          !.threw = err # "", !.err = err, !.pre = Snapshot(sid),
                          !.result = IF err = "" THEN Some(sessions[sid]) ELSE Absent]
           /\ UNCHANGED <<sessions, messages, players, openaiConfigured, inflight>>

UserTexts == { <<W("hola")>> }

\* ChatService.addMessage with a user message
AddMessage ==
    /\ last = Idle
    /\ Len(messages) < MaxMessages
    /\ \E sid \in AllIds, text \in UserTexts :
        LET st == addMessage(StartSt, sid, USER, text)
        IN /\ messages' = st.messages
           /\ last' = [Obs("addMessage", sid) EXCEPT
                          !.threw = st.err # "", !.err = st.err, !.pre = Snapshot(sid),
                          !.content = Some(text),
                          !.result = IF st.err = ""
                                     THEN Some(st.messages[Len(st.messages)])
                                     ELSE Absent]
           /\ UNCHANGED <<sessions, players, openaiConfigured, inflight>>

AssistantTexts == { Reply("notice") }

\* ChatService.addAssistantMessage
AddAssistantMessage ==
    /\ last = Idle
    /\ Len(messages) < MaxMessages
    /\ \E sid \in AllIds, text \in AssistantTexts :
        LET st == addAssistantMessage(StartSt, sid, text)
        IN /\ messages' = st.messages
           /\ last' = [Obs("addAssistantMessage", sid) EXCEPT
                          !.threw = st.err # "", !.err = st.err, !.pre = Snapshot(sid),
                          !.reply = text,
                          !.result = IF st.err = ""
                                     THEN Some(st.messages[Len(st.messages)])
                                     ELSE Absent]
           /\ UNCHANGED <<sessions, players, openaiConfigured, inflight>>

Limits == {1, 50}
Offsets == {0, 1}

\* skip(offset).limit(limit)
Page_IgnoresOffset(seq, limit, offset) ==
    SubSeq(seq, 1, IF limit < Len(seq) THEN limit ELSE Len(seq))

Page(seq, limit, offset) ==
    SubSeq(seq, offset + 1, IF offset + limit < Len(seq) THEN offset + limit ELSE Len(seq))

\* ChatService.getMessages
getMessages(st, sid, limit, offset) ==
    IF getSessionError(st, sid) # "" THEN [err |-> getSessionError(st, sid), value |-> <<>>]
    ELSE [err |-> "", value |-> Page(MessagesOf(st.messages, sid), limit, offset)]

GetMessages ==
    /\ last = Idle
    /\ \E sid \in AllIds, limit \in Limits, offset \in Offsets :
        LET r == getMessages(StartSt, sid, limit, offset)
        IN /\ last' = [Obs("getMessages", sid) EXCEPT
                          !.threw = r.err # "", !.err = r.err, !.pre = Snapshot(sid),
                          !.result = <<limit, offset, r.value>>]
           /\ UNCHANGED <<sessions, messages, players, openaiConfigured, inflight>>

\* ChatService.closeSession
CloseSession ==
    /\ last = Idle
    /\ \E sid \in AllIds :
        LET st == closeSession(StartSt, sid)
        IN /\ sessions' = st.sessions
           /\ last' = [Obs("closeSession", sid) EXCEPT
                          !.threw = st.err # "", !.err = st.err, !.pre = Snapshot(sid),
                          !.result = IF st.err = "" THEN Some(st.sessions[sid]) ELSE Absent]
           /\ UNCHANGED <<messages, players, openaiConfigured, inflight>>

\* OrchestratorService.processMessage; what it wrote before an exception is
\* kept, as each write is saved when it is made
TurnStep(maxMessages, sids, playerIds, inputs) ==
    /\ last = Idle
    /\ Len(messages) < maxMessages
    /\ \E sid \in sids :
       \E playerId \in IF sid \in DOMAIN sessions THEN playerIds ELSE {None} :
       \E in \in IF sid \in DOMAIN sessions THEN inputs
                  ELSE {[content |-> Some(<<W("hola")>>), images |-> <<>>]} :
        LET content == in.content
            images == in.images
            dto == [sessionId |-> sid, playerId |-> playerId, content |-> content,
                    images |-> images]
        IN \E r \in Turns(StartSt, dto, AllFail, 1) :
               /\ sessions' = r.st.sessions
               /\ messages' = r.st.messages
               /\ players' = r.st.players
               /\ last' = [Obs("processMessage", sid) EXCEPT
                              !.threw = r.st.err # "", !.err = r.st.err,
                              !.reply = IF r.st.err = "" THEN r.response ELSE Reply(""),
                              !.flowType = IF r.st.err = "" THEN r.flowType ELSE None,
                              !.calls = r.st.calls, !.pre = Snapshot(sid),
                              !.kyc = r.st.kyc, !.stage = r.st.stage,
                              !.resolved = r.st.resolved, !.content = content,
                              !.images = images, !.playerId = playerId,
                              !.statuses = r.st.statuses]
               /\ UNCHANGED <<openaiConfigured, inflight>>

ProcessMessage == TurnStep(MaxMessages, AllIds, DtoPlayerIds, TurnInputs)

\* the client takes the result of its call
Return ==
    /\ last # Idle
    /\ last' = Idle
    /\ UNCHANGED <<sessions, messages, players, openaiConfigured, inflight>>

Next ==
    \/ CreateSession
    \/ GetSession
    \/ AddMessage
    \/ AddAssistantMessage
    \/ GetMessages
    \/ CloseSession
    \/ ProcessMessage
    \/ Return

Spec == Init /\ [][Next]_vars

(***************************************************************************)
(* The KYC pipeline on its own.  What the image analysis answers for the   *)
(* back document and for the selfie is an input of the stage, as is the    *)
(* outcome of every other call the stage makes.  The session store is      *)
(* also written through the operations ChatService exports.                *)
(***************************************************************************)
MaxKycTurns == 1

KycPlayerIds == {"pA", "pB", "pC"}
KycDtoPlayerIds == {None, "pA", "pB", "pC", "pX"}
KycPlayers == [p \in KycPlayerIds |-> IF p = "pB" THEN Player(TRUE, "D1")
                                      ELSE Player(FALSE, None)]

KycInit ==
    /\ sessions = <<>>
    /\ messages = <<>>
    /\ players = KycPlayers
    /\ openaiConfigured \in BOOLEAN
    /\ inflight = NoDeliveries
    /\ last = Idle

\* an answer of the analysis: the call failed, or a completion came back
Answer(content) ==
    [threw |-> FALSE, success |-> TRUE, rawResponse |-> content, extractedData |-> Absent]
Unparsable(content) == [content EXCEPT !.badJson = TRUE]

BackAnswers ==
    {VisionFailure, Answer(Content({}, BackJson)),
     Answer(Content({}, Some([isBackOfDocument |-> FALSE, isVisible |-> TRUE,
                              isClear |-> TRUE, issues |-> FALSE]))),
     Answer(Content({"reverso"}, Absent)), Answer(Content({"no"}, Absent))}

SelfieFaces == {0, 1, 2}
SelfieConfidences == {59, 60}
SelfieJsons ==
    {Some([facesDetected |-> f, isHoldingDocument |-> h, faceMatchConfidence |-> c,
           isClear |-> TRUE, issues |-> FALSE]) :
        f \in SelfieFaces, h \in BOOLEAN, c \in SelfieConfidences}
    \cup {Some([facesDetected |-> 1, isHoldingDocument |-> TRUE,
                faceMatchConfidence |-> 90, isClear |-> FALSE, issues |-> FALSE])}
SelfieAnswers ==
    {VisionFailure, Answer(Content({"selfie"}, Absent)),
     Answer(Unparsable(Content({}, Absent)))}
    \cup {Answer(Content({}, j)) : j \in SelfieJsons}

\* the outcomes a stage of the pipeline can meet: e for the calls of
\* handleKYCFlow and of the front stage, back and selfie for the analysis
StageInput(e, back, selfie) == [e |-> e, back |-> back, selfie |-> selfie]
StageInputs(step, imageBase64) ==
    LET found == [AllFail EXCEPT !.idFail = FALSE]
    IN {StageInput(AllFail, VisionFailure, VisionFailure)} \cup
       (IF imageBase64 = None \/ step = COMPLETED
        THEN {StageInput(found, VisionFailure, VisionFailure)}
        ELSE IF step = BACK_DOCUMENT
        THEN {StageInput(found, b, VisionFailure) : b \in BackAnswers}
        ELSE IF step = SELFIE
        THEN {StageInput([found EXCEPT !.markFail = m], VisionFailure, sf) :
                 m \in BOOLEAN, sf \in SelfieAnswers}
        ELSE {StageInput([found EXCEPT !.oaDoc = oa, !.ocrDoc = ocr, !.idFail2 = i2,
                                       !.dupFail = dup],
                         VisionFailure, VisionFailure) :
                 oa \in EnvFields[9].full, ocr \in EnvFields[10].full,
                 i2 \in BOOLEAN, dup \in BOOLEAN})

KycImages == {None, "imgA"}

RunStage(sid, playerId, imageBase64, in) ==
    handleKYCFlowOn(StartSt, sid, playerId, imageBase64, openaiConfigured, in.e,
                    verifyBackDocumentOn(in.back), verifySelfieWithDocumentOn(in.selfie))

\* a call that is not made has no outcome to choose: when no verification
\* runs, only the outcome of the account lookup is read
StageInputsRead(sid, playerId, imageBase64) ==
    LET found == StageInput([AllFail EXCEPT !.idFail = FALSE], VisionFailure, VisionFailure)
    IN IF RunStage(sid, playerId, imageBase64, found).st.stage = <<>>
       THEN {StageInput(AllFail, VisionFailure, VisionFailure), found}
       ELSE StageInputs(KycStepOf(sessions[sid]), imageBase64)

\* OrchestratorService.handleKYCFlow
KycStage ==
    /\ last = Idle
    /\ \E sid \in DOMAIN sessions, playerId \in KycDtoPlayerIds, imageBase64 \in KycImages :
       \E in \in StageInputsRead(sid, playerId, imageBase64) :
        LET r == RunStage(sid, playerId, imageBase64, in)
        IN /\ sessions' = r.st.sessions
           /\ players' = r.st.players
           /\ last' = [Obs("handleKYCFlow", sid) EXCEPT
                          !.threw = r.st.err # "", !.err = r.st.err,
                          !.reply = r.response, !.calls = r.st.calls,
                          !.pre = Snapshot(sid), !.kyc = r.st.kyc, !.stage = r.st.stage,
                          !.images = IF imageBase64 = None THEN <<>> ELSE <<imageBase64>>,
                          !.playerId = playerId, !.input = Some(in)]
           /\ UNCHANGED <<messages, openaiConfigured, inflight>>

\* ChatService.updateKYCBackDocument
UpdateKYCBackDocument ==
    /\ last = Idle
    /\ \E sid \in DOMAIN sessions :
        LET st == updateKYCBackDocument(StartSt, sid, "imgB")
        IN /\ sessions' = st.sessions
           /\ last' = [Obs("updateKYCBackDocument", sid) EXCEPT
                          !.threw = st.err # "", !.err = st.err, !.pre = Snapshot(sid),
                          !.kyc = st.kyc]
           /\ UNCHANGED <<messages, players, openaiConfigured, inflight>>

\* ChatService.clearKYCState
ClearKYCState ==
    /\ last = Idle
    /\ \E sid \in DOMAIN sessions :
        LET st == clearKYCState(StartSt, sid)
        IN /\ sessions' = st.sessions
           /\ last' = [Obs("clearKYCState", sid) EXCEPT
                          !.threw = st.err # "", !.err = st.err, !.pre = Snapshot(sid),
                          !.kyc = st.kyc]
           /\ UNCHANGED <<messages, players, openaiConfigured, inflight>>

KycTurnInputs ==
    {[content |-> Some(<<W("hola")>>), images |-> <<>>],
     [content |-> Some(<<D(Id0000085426)>>), images |-> <<>>],
     [content |-> Absent, images |-> <<"imgA">>]}
KycTurnPlayerIds == {"pA", "pC"}

\* OrchestratorService.processMessage on a session of the pipeline
KycTurn == TurnStep(MaxKycTurns, NewIds, KycTurnPlayerIds, KycTurnInputs)

KycNext ==
    \/ CreateSession
    \/ KycStage
    \/ UpdateKYCBackDocument
    \/ ClearKYCState
    \/ KycTurn
    \/ Return

KycSpec == KycInit /\ [][KycNext]_vars

(***************************************************************************)
(* The message history of one session: ChatService.addMessage and          *)
(* getMessages (limit = 50, offset = 0 by default) past the default page.  *)
(***************************************************************************)
MaxHistory == 51
DEFAULT_LIMIT == 50
HistoryLimits == {1, DEFAULT_LIMIT}
HistoryOffsets == {0, 1, DEFAULT_LIMIT}
\* the role varies on the first two messages and past the default page
HistoryRoles(n) == IF n < 2 \/ n >= DEFAULT_LIMIT THEN {USER, ASSISTANT} ELSE {USER}

HistoryAddMessage ==
    /\ last = Idle
    /\ Len(messages) < MaxHistory
    /\ \E sid \in DOMAIN sessions, role \in HistoryRoles(Len(messages)),
          text \in UserTexts :
        LET st == addMessage(StartSt, sid, role, text)
        IN /\ messages' = st.messages
           /\ last' = [Obs("addMessage", sid) EXCEPT
                          !.threw = st.err # "", !.err = st.err, !.pre = Snapshot(sid),
                          !.content = Some(text),
                          !.input = Some([role |-> role, text |-> text]),
                          !.result = IF st.err = ""
                                     THEN Some(st.messages[Len(st.messages)])
                                     ELSE Absent]
           /\ UNCHANGED <<sessions, players, openaiConfigured, inflight>>

HistoryGetMessages ==
    /\ last = Idle
    /\ \E sid \in DOMAIN sessions, limit \in HistoryLimits, offset \in HistoryOffsets :
        LET r == getMessages(StartSt, sid, limit, offset)
        IN /\ last' = [Obs("getMessages", sid) EXCEPT
                          !.threw = r.err # "", !.err = r.err, !.pre = Snapshot(sid),
                          !.result = <<limit, offset, r.value>>]
           /\ UNCHANGED <<sessions, messages, players, openaiConfigured, inflight>>

HistoryNext == CreateSession \/ HistoryAddMessage \/ HistoryGetMessages \/ Return
HistorySpec == Init /\ [][HistoryNext]_vars

(***************************************************************************)
(* Ticket id resolution as a function of the stored form of the record and *)
(* of the id asked for: BackofficeService.findBetByLocalId applied to an   *)
(* id, and to the id extractTicketId finds in a text.                      *)
(***************************************************************************)
MaxZeros == 7
Blank == 32            \* a whitespace character inside an id string
Core85426 == <<8, 5, 4, 2, 6>>
RECURSIVE Zeros(_)
Zeros(n) == IF n = 0 THEN <<>> ELSE <<0>> \o Zeros(n - 1)

\* the ledger holds one record for ticket 85426, under either form
StoredForms == {Core85426, Id0000085426}
LedgerStoring(form) == {[Bet85426 EXCEPT !.betLocalId = form]}

AskedCores == {Core85426, <<9, 9, 9, 9, 9>>, <<8, 5, 4, 2>>}
AskedIds ==
    {lead \o Zeros(z) \o core \o trail :
        lead \in {<<>>, <<Blank>>}, z \in 0..MaxZeros, core \in AskedCores,
        trail \in {<<>>, <<Blank>>}}
AskedTexts ==
    {<<D(Zeros(z) \o core)>> : z \in 0..MaxZeros, core \in AskedCores} \cup
    {<<W("ticket"), D(Zeros(z) \o core)>> : z \in 0..MaxZeros, core \in AskedCores}

ResolveInit ==
    /\ sessions = <<>>
    /\ messages = <<>>
    /\ players = InitialPlayers
    /\ openaiConfigured \in BOOLEAN
    /\ inflight = NoDeliveries
    /\ last = Idle

FindBet ==
    /\ last = Idle
    /\ \E form \in StoredForms, id \in AskedIds, dbFail \in BOOLEAN :
        last' = [Obs("findBetByLocalId", None) EXCEPT
                    !.input = Some([stored |-> form, id |-> id, dbFail |-> dbFail]),
                    !.result = Some(findBetByLocalIdIn(LedgerStoring(form), id, dbFail))]
    /\ UNCHANGED <<sessions, messages, players, openaiConfigured, inflight>>

\* the id of a text: extractTicketId, then the ledger lookup if one is found
FindBetInText ==
    /\ last = Idle
    /\ \E form \in StoredForms, text \in AskedTexts :
        LET ticketId == extractTicketId(text)
        IN last' = [Obs("extractTicketId", None) EXCEPT
                       !.input = Some([stored |-> form, id |-> ticketId,
                                       dbFail |-> FALSE]),
                       !.content = Some(text),
                       !.result = IF ticketId = <<>> THEN Absent
                                  ELSE Some(findBetByLocalIdIn(LedgerStoring(form),
                                                               ticketId, FALSE))]
    /\ UNCHANGED <<sessions, messages, players, openaiConfigured, inflight>>

(***************************************************************************)
(* TicketVerificationService of ticket-verification.service.ts: the id is  *)
(* read from the image, then looked up through the Sorti365 tickets API.   *)
(***************************************************************************)
\* the tickets the ledger behind the API holds, and the data it has for them
ApiTickets == {Id0000085426}
ApiTicketData ==
    [status |-> "lost", amount |-> 5000, currency |-> "COP",
     events |-> <<[eventId |-> "E85426", result |-> "lost"]>>]

\* GET /tickets/:id : the request fails (down, or refused for an unknown id),
\* or answers with the data, null for an unknown id
ApiGet(ticketId, down, nullBody) ==
    IF down THEN FAIL
    ELSE IF ticketId \in ApiTickets THEN Ok(Some(ApiTicketData))
    ELSE IF nullBody THEN Ok(Absent)
    ELSE FAIL

MockStatuses == <<"pending", "won", "lost">>
MockAmounts == {10000, 109999}
MockDraws == [status : 1..3, amount : MockAmounts]
getMockTicketData(ticketId, draw) ==
    LET randomStatus == MockStatuses[draw.status]
    IN [status |-> randomStatus, amount |-> draw.amount, currency |-> "COP",
        events |-> <<[eventId |-> "EVT001", result |-> randomStatus],
                     [eventId |-> "EVT002", result |-> randomStatus]>>]

\* null only when the API answers with a null body
queryTicketApi(apiKey, ticketId, http, draw) ==
    IF ~apiKey THEN Some(getMockTicketData(ticketId, draw))
    ELSE IF Failed(http) THEN Some(getMockTicketData(ticketId, draw))
    ELSE Payload(http)

\* steps 2 and 3: the id and confidence read from the image, <<>> for no id
extractFromImage_OcrFirst(configured, oa, ocrHttp) ==
    LET visionResult == analyzeTicket(configured, 1, oa)
        hasData == visionResult.success /\ IsSome(visionResult.extractedData)
        visionId == IF hasData THEN Get(visionResult.extractedData).ticketId ELSE <<>>
        visionConf == IF hasData THEN Get(visionResult.extractedData).confidence ELSE 0
        ocrResult == extractTicketData(ocrHttp)
        ocrHit == ocrResult.success /\ ocrResult.ticket_id # <<>>
    IN [threw |-> visionResult.threw,
        ticketId |-> IF ocrHit THEN ocrResult.ticket_id ELSE visionId,
        confidence |-> IF ocrHit
                       THEN (IF ocrResult.confidence # 0 THEN ocrResult.confidence
                             ELSE 70)
                       ELSE visionConf,
        calls |-> {"vision_ticket"} \cup
                  (IF ~visionResult.threw THEN {"ocr_ticket"} ELSE {})]

extractFromImage(configured, oa, ocrHttp) ==
    LET visionResult == analyzeTicket(configured, 1, oa)
        hasData == visionResult.success /\ IsSome(visionResult.extractedData)
        visionId == IF hasData THEN Get(visionResult.extractedData).ticketId ELSE <<>>
        visionConf == IF hasData THEN Get(visionResult.extractedData).confidence ELSE 0
        ocrResult == extractTicketData(ocrHttp)
        ocrHit == visionId = <<>> /\ ocrResult.success /\ ocrResult.ticket_id # <<>>
    IN [threw |-> visionResult.threw,
        ticketId |-> IF visionId # <<>> THEN visionId
                     ELSE IF ocrHit THEN ocrResult.ticket_id ELSE <<>>,
        confidence |-> IF ocrHit
                       THEN (IF ocrResult.confidence # 0 THEN ocrResult.confidence
                             ELSE 70)
                       ELSE visionConf,
        calls |-> {"vision_ticket"} \cup
                  (IF ~visionResult.threw /\ visionId = <<>> THEN {"ocr_ticket"} ELSE {})]

ApiTicketResult(ok, tid, data, conf, error, calls) ==
    [success |-> ok, ticketId |-> tid, ticketData |-> data, confidence |-> conf,
     error |-> error, calls |-> calls]
NoInformationFor(ticketId) == [kind |-> "no_information_for_ticket", id |-> ticketId]

\* calls: the capabilities called on the way, not part of the returned object
verifyTicketByApi(configured, oa, ocrHttp, apiKey, down, nullBody, draw) ==
    LET x == extractFromImage(configured, oa, ocrHttp)
        ticketData == queryTicketApi(apiKey, x.ticketId,
                                     ApiGet(x.ticketId, down, nullBody), draw)
        queried == x.calls \cup {"tickets_api"}
    IN IF x.threw
       THEN ApiTicketResult(FALSE, <<>>, Absent, 0, [kind |-> "exception", id |-> <<>>],
                            x.calls)
       ELSE IF x.ticketId = <<>>
       THEN ApiTicketResult(FALSE, <<>>, Absent, 0,
                            [kind |-> "could_not_identify_ticket", id |-> <<>>], x.calls)
       ELSE IF ~IsSome(ticketData)
       THEN ApiTicketResult(FALSE, x.ticketId, Absent, x.confidence,
                            NoInformationFor(x.ticketId), queried)
       ELSE ApiTicketResult(TRUE, x.ticketId, ticketData, x.confidence,
                            [kind |-> "", id |-> <<>>], queried)

TicketImageAnswers ==
    {FAIL, Ok(Content({}, GoodTicketJson)), Ok(Content({}, NoTicketJson)),
     Ok(Content({}, Some([ticketId |-> Id0000099999, confidence |-> 90])))}
TicketOcrAnswers ==
    {FAIL, Ok(OcrPayload(TRUE, Id0000099999, None, None, 80)),
     Ok(OcrPayload(TRUE, Id0000085426, None, None, 0)),
     Ok(OcrPayload(TRUE, <<>>, None, None, 80))}

VerifyTicketImage ==
    /\ last = Idle
    /\ \E oa \in TicketImageAnswers, ocrHttp \in TicketOcrAnswers,
          apiKey \in BOOLEAN, down \in BOOLEAN, nullBody \in BOOLEAN,
          draw \in MockDraws :
        last' = [Obs("verifyTicket", None) EXCEPT
                    !.input = Some([oa |-> oa, ocrHttp |-> ocrHttp, apiKey |-> apiKey,
                                    down |-> down, nullBody |-> nullBody,
                                    draw |-> draw]),
                    !.result = Some(verifyTicketByApi(openaiConfigured, oa, ocrHttp,
                                                      apiKey, down, nullBody, draw))]
    /\ UNCHANGED <<sessions, messages, players, openaiConfigured, inflight>>

(***************************************************************************)
(* verifyTicket called with onStatusUpdate.  The body of its try block is  *)
(* a script of status emissions and capability calls; a callback that      *)
(* throws at an emission leaves the script for the catch block, whose own  *)
(* emission is one more call of the callback.                              *)
(***************************************************************************)
EmitStep(step, progress) == [kind |-> "emit", status |-> Status(step, progress), call |-> ""]
CallStep(call) == [kind |-> "call", status |-> Status("", 0), call |-> call]

verifyTicketSteps(configured, oa, ocrHttp, apiKey, down, nullBody, draw) ==
    Bind(extractFromImage(configured, oa, ocrHttp), LAMBDA x :
    Bind(queryTicketApi(apiKey, x.ticketId, ApiGet(x.ticketId, down, nullBody), draw),
         LAMBDA ticketData :
      <<EmitStep(STEP_RECEIVED, 10), EmitStep(STEP_ANALYZING_IMAGE, 20),
        CallStep("vision_ticket")>>
      \o (IF x.threw THEN <<>>
          ELSE (IF "ocr_ticket" \in x.calls
                THEN <<EmitStep(STEP_EXTRACTING_TEXT, 40), CallStep("ocr_ticket")>>
                ELSE <<>>)
               \o (IF x.ticketId = <<>> THEN <<EmitStep(STEP_ERROR, 100)>>
                   ELSE <<EmitStep(STEP_QUERYING_API, 60), CallStep("tickets_api")>>
                        \o (IF ~IsSome(ticketData)
                            THEN <<EmitStep(STEP_ERROR, 100)>>
                            ELSE <<EmitStep(STEP_GENERATING_RESPONSE, 80),
                                   EmitStep(STEP_COMPLETED, 100)>>)))))

\* a StatusCallback: absent, or present and throwing at the calls in `fails'
MaxStatusCalls == 7
NoCallback == [present |-> FALSE, fails |-> {}]
Delivering == [present |-> TRUE, fails |-> {}]
StatusCallbacks ==
    {NoCallback, Delivering}
    \cup {[present |-> TRUE, fails |-> {k}] : k \in 1..MaxStatusCalls}
    \cup {[present |-> TRUE, fails |-> k..MaxStatusCalls] : k \in 1..MaxStatusCalls}

EmitOrdinal(steps, j) == Cardinality({i \in 1..j : steps[i].kind = "emit"})
FirstFailure(steps, cb) ==
    Bind({j \in 1..Len(steps) : /\ steps[j].kind = "emit"
                                /\ cb.present
                                /\ EmitOrdinal(steps, j) \in cb.fails},
         LAMBDA F : IF F = {} THEN 0 ELSE CHOOSE j \in F : \A k \in F : j <= k)

\* threw: the promise rejects; statuses: what the callback delivered
verifyTicketWithStatus(configured, oa, ocrHttp, apiKey, down, nullBody, draw, cb) ==
    Bind(verifyTicketSteps(configured, oa, ocrHttp, apiKey, down, nullBody, draw),
         LAMBDA steps :
    Bind(FirstFailure(steps, cb), LAMBDA f :
    Bind(IF f = 0 THEN steps ELSE SubSeq(steps, 1, f - 1), LAMBDA ran :
    Bind(SelectSeq(ran, LAMBDA s : s.kind = "emit"), LAMBDA emitted :
    Bind(f # 0 \/ extractFromImage(configured, oa, ocrHttp).threw, LAMBDA caught :
      LET delivered == IF cb.present THEN [i \in 1..Len(emitted) |-> emitted[i].status]
                       ELSE <<>>
          calls == {ran[i].call : i \in {j \in 1..Len(ran) : ran[j].kind = "call"}}
          catchOrdinal == Len(emitted) + (IF f # 0 THEN 1 ELSE 0) + 1
          catchFails == cb.present /\ catchOrdinal \in cb.fails
      IN [threw |-> caught /\ catchFails,
          result |-> IF ~caught
                     THEN verifyTicketByApi(configured, oa, ocrHttp, apiKey, down,
                                            nullBody, draw)
                     ELSE ApiTicketResult(FALSE, <<>>, Absent, 0,
                                          [kind |-> IF f # 0 THEN "callback_exception"
                                                    ELSE "exception", id |-> <<>>],
                                          calls),
          statuses |-> delivered \o (IF caught /\ cb.present /\ ~catchFails
                                     THEN <<Status(STEP_ERROR, 100)>> ELSE <<>>)])))))

VerifyTicketNotified ==
    /\ last = Idle
    /\ \E oa \in TicketImageAnswers, ocrHttp \in TicketOcrAnswers,
          apiKey \in BOOLEAN, down \in BOOLEAN, nullBody \in BOOLEAN,
          draw \in MockDraws, cb \in StatusCallbacks :
        LET r == verifyTicketWithStatus(openaiConfigured, oa, ocrHttp, apiKey, down,
                                        nullBody, draw, cb)
        IN last' = [Obs("verifyTicket_onStatusUpdate", None) EXCEPT
                       !.input = Some([oa |-> oa, ocrHttp |-> ocrHttp,
                                       apiKey |-> apiKey, down |-> down,
                                       nullBody |-> nullBody, draw |-> draw,
                                       cb |-> cb]),
                       !.threw = r.threw,
                       !.result = Some(r.result),
                       !.statuses = r.statuses]
    /\ UNCHANGED <<sessions, messages, players, openaiConfigured, inflight>>

(***************************************************************************)
(* BackofficeService.formatBetResponse over bets of two legs and the       *)
(* question that accompanies the request.                                  *)
(***************************************************************************)
BetResults == {"Won", "Lost", "Void", "Canceled", "Cancelled", "Pending"}
FormattedBets ==
    {[Bet85426 EXCEPT !.result = r,
                      !.events = <<Event("e1", r1), Event("e2", r2)>>] :
        r \in BetResults, r1 \in BetResults, r2 \in BetResults}
Questions ==
    {Absent, Some(<<W("hola")>>), Some(<<W("por qué"), W("perdí")>>),
     Some(<<W("por que"), W("perdi")>>), Some(<<W("fue"), W("cancelado")>>),
     Some(<<W("perdido"), W("o"), W("anulado")>>)}

FormatBet ==
    /\ last = Idle
    /\ \E bet \in FormattedBets, question \in Questions :
        last' = [Obs("formatBetResponse", None) EXCEPT
                    !.input = Some([bet |-> bet, question |-> question]),
                    !.reply = formatBetResponse(bet, question)]
    /\ UNCHANGED <<sessions, messages, players, openaiConfigured, inflight>>

ResolveNext ==
    \/ FindBet
    \/ FindBetInText
    \/ VerifyTicketImage
    \/ VerifyTicketNotified
    \/ FormatBet
    \/ Return
ResolveSpec == ResolveInit /\ [][ResolveNext]_vars

(***************************************************************************)
(* Two sessions live at once.  Every operation is a call on one of them;   *)
(* the store addresses documents by session id.  setLastVerifiedTicket and *)
(* initKYCProcess act through the turns that call them.                    *)
(***************************************************************************)
MaxPairMessages == 2

PairCreateSession ==
    /\ last = Idle
    /\ \E sid \in PairIds \ DOMAIN sessions, playerId \in SessionPlayerIds :
        /\ sessions' = [s \in DOMAIN sessions \cup {sid} |->
                           IF s = sid THEN NewSession(playerId) ELSE sessions[s]]
        /\ last' = [Obs("createSession", sid) EXCEPT !.result = Some(NewSession(playerId))]
        /\ UNCHANGED <<messages, players, openaiConfigured, inflight>>

PairAddMessage ==
    /\ last = Idle
    /\ Len(messages) < MaxPairMessages
    /\ \E sid \in PairIds, text \in UserTexts :
        LET st == addMessage(StartSt, sid, USER, text)
        IN /\ messages' = st.messages
           /\ last' = [Obs("addMessage", sid) EXCEPT
                          !.threw = st.err # "", !.err = st.err, !.pre = Snapshot(sid),
                          !.content = Some(text)]
           /\ UNCHANGED <<sessions, players, openaiConfigured, inflight>>

PairGetMessages ==
    /\ last = Idle
    /\ \E sid \in PairIds :
        LET r == getMessages(StartSt, sid, DEFAULT_LIMIT, 0)
        IN /\ last' = [Obs("getMessages", sid) EXCEPT
                          !.threw = r.err # "", !.err = r.err, !.pre = Snapshot(sid),
                          !.result = <<DEFAULT_LIMIT, 0, r.value>>]
           /\ UNCHANGED <<sessions, messages, players, openaiConfigured, inflight>>

PairCloseSession ==
    /\ last = Idle
    /\ \E sid \in PairIds :
        LET st == closeSession(StartSt, sid)
        IN /\ sessions' = st.sessions
           /\ last' = [Obs("closeSession", sid) EXCEPT
                          !.threw = st.err # "", !.err = st.err, !.pre = Snapshot(sid)]
           /\ UNCHANGED <<messages, players, openaiConfigured, inflight>>

\* ChatService.clearTicketContext
ClearTicketContext ==
    /\ last = Idle
    /\ \E sid \in DOMAIN sessions :
        LET st == clearTicketContext(StartSt, sid)
        IN /\ sessions' = st.sessions
           /\ last' = [Obs("clearTicketContext", sid) EXCEPT
                          !.threw = st.err # "", !.err = st.err, !.pre = Snapshot(sid)]
           /\ UNCHANGED <<messages, players, openaiConfigured, inflight>>

\* the outcomes of the remote calls of a turn: all fail, or the ledger and the
\* identity store answer, a text is classified as a ticket request and an
\* image as an identity document
PairEnvs ==
    {AllFail,
     [AllFail EXCEPT !.ledgerFail = FALSE, !.idFail = FALSE,
                     !.intent = Ok("ticket_verification"),
                     !.visClass = Ok(Content({"cedula"}, Absent))]}

\* OrchestratorService.processMessage on one of the two sessions
PairTurn ==
    /\ last = Idle
    /\ Len(messages) < MaxPairMessages
    /\ \E sid \in PairIds, in \in KycTurnInputs, e \in PairEnvs :
        LET dto == [sessionId |-> sid, playerId |-> "pA", content |-> in.content,
                    images |-> in.images]
            r == processMessage(StartSt, dto, openaiConfigured, e)
        IN /\ sessions' = r.st.sessions
           /\ messages' = r.st.messages
           /\ players' = r.st.players
           /\ last' = [Obs("processMessage", sid) EXCEPT
                          !.threw = r.st.err # "", !.err = r.st.err,
                          !.reply = IF r.st.err = "" THEN r.response ELSE Reply(""),
                          !.flowType = IF r.st.err = "" THEN r.flowType ELSE None,
                          !.calls = r.st.calls, !.pre = Snapshot(sid),
                          !.content = in.content, !.images = in.images,
                          !.playerId = "pA"]
           /\ UNCHANGED <<openaiConfigured, inflight>>

PairNext ==
    \/ PairCreateSession
    \/ PairAddMessage
    \/ PairGetMessages
    \/ PairCloseSession
    \/ ClearTicketContext
    \/ UpdateKYCBackDocument
    \/ ClearKYCState
    \/ PairTurn
    \/ Return

\* the deployment with the vision model configured
PairInit ==
    /\ sessions = <<>>
    /\ messages = <<>>
    /\ players = InitialPlayers
    /\ openaiConfigured = TRUE
    /\ inflight = NoDeliveries
    /\ last = Idle

PairSpec == PairInit /\ [][PairNext]_vars

(***************************************************************************)
(* The transport.  ChatGateway.handleMessage is an async handler started   *)
(* for every chat:message event, and OrchestratorController.processMessage *)
(* for every POST to the process endpoint; a handler gives way at each of  *)
(* its awaits, where any other handler may start or go on.  What a call    *)
(* writes is applied when its await returns.                               *)
(***************************************************************************)
GatewaySids == PairIds \cup {"s9"}

At(d, pc) == inflight[d].pc = pc
Goto(d, pc) == inflight' = [inflight EXCEPT ![d].pc = pc]

\* a chat:message event arrives: handleMessage starts and awaits addMessage
HandleMessageReceive ==
    /\ \E d \in Deliveries, sid \in GatewaySids :
        /\ At(d, "unsent")
        /\ inflight' = [inflight EXCEPT
                           ![d] = [Unsent EXCEPT !.sid = sid, !.via = "chat:message",
                                                 !.pc = "addMessage",
                                                 !.content = Some(<<W("hola")>>)]]
    /\ UNCHANGED <<sessions, messages, players, openaiConfigured, last>>

\* addMessage returns: the user message is emitted and processMessage is
\* called; an exception goes to the catch block, which emits chat:error
HandleMessageSaved ==
    /\ \E d \in Deliveries :
        /\ At(d, "addMessage")
        /\ LET st == addMessage(StartSt, inflight[d].sid, USER, Get(inflight[d].content))
           IN /\ messages' = st.messages
              /\ Goto(d, IF st.err # "" THEN "done" ELSE "processMessage")
    /\ UNCHANGED <<sessions, players, openaiConfigured, last>>

\* the body of a POST to the process endpoint, and what the ValidationPipe
\* makes of it with ProcessMessageDto: sessionId must be a string, content
\* and images are optional
RestBody(sessionId, content, images) ==
    [sessionId |-> sessionId, content |-> content, images |-> images]
RestBodies ==
    {RestBody(Absent, Some(<<W("hola")>>), <<>>)}
    \cup {RestBody(Some(sid), c, <<>>) : sid \in GatewaySids, c \in {Absent, Some(<<W("hola")>>)}}
    \cup {RestBody(Some(sid), Absent, <<"imgA">>) : sid \in PairIds}
validateProcessMessageDto(body) == IsSome(body.sessionId)

\* a POST to the process endpoint arrives: a body that fails validation is
\* answered 400, for any other the controller awaits processMessage
RestProcessReceive ==
    /\ \E d \in Deliveries, body \in RestBodies :
        /\ At(d, "unsent")
        /\ inflight' = [inflight EXCEPT
                           ![d] = [Unsent EXCEPT
                                     !.sid = IF IsSome(body.sessionId)
                                             THEN Get(body.sessionId) ELSE "none",
                                     !.via = "rest",
                                     !.pc = IF validateProcessMessageDto(body)
                                            THEN "processMessage" ELSE "rejected",
                                     !.content = body.content,
                                     !.images = body.images]]
    /\ UNCHANGED <<sessions, messages, players, openaiConfigured, last>>

\* processMessage returns to the handler that awaits it: the controller
\* answers, the gateway goes on to fetch the message it will emit
ProcessMessageReturns ==
    /\ \E d \in Deliveries :
        /\ At(d, "processMessage")
        /\ LET dto == [sessionId |-> inflight[d].sid, playerId |-> None,
                       content |-> inflight[d].content, images |-> inflight[d].images]
               r == processMessage(StartSt, dto, openaiConfigured, AllFail)
               failed == r.st.err # ""
           IN /\ sessions' = r.st.sessions
              /\ messages' = r.st.messages
              /\ players' = r.st.players
              /\ inflight' = [inflight EXCEPT
                    ![d].pc = IF failed \/ inflight[d].via = "rest" THEN "done"
                              ELSE "getMessages",
                    ![d].reply = IF failed THEN Absent ELSE Some(r.response),
                    ![d].persisted = IF failed THEN Absent
                                     ELSE Some(r.st.messages[Len(r.st.messages)])]
    /\ UNCHANGED <<openaiConfigured, last>>

\* getMessages(sessionId, 1, 0) returns; its first element is emitted to the
\* room as the assistant response
HandleMessageReplied ==
    /\ \E d \in Deliveries :
        /\ At(d, "getMessages")
        /\ LET r == getMessages(StartSt, inflight[d].sid, 1, 0)
           IN inflight' = [inflight EXCEPT
                 ![d].pc = "done",
                 ![d].emitted = IF r.err = "" /\ Len(r.value) > 0 THEN Some(r.value[1])
                                ELSE Absent]
    /\ UNCHANGED <<sessions, messages, players, openaiConfigured, last>>

GatewayNext ==
    \/ PairCreateSession
    \/ Return
    \/ HandleMessageReceive
    \/ HandleMessageSaved
    \/ RestProcessReceive
    \/ ProcessMessageReturns
    \/ HandleMessageReplied

GatewaySpec == Init /\ [][GatewayNext]_vars

(***************************************************************************)
(* Two accounts run the KYC pipeline, each in its own session, one turn at *)
(* a time in any order.  The identity store answers every call; the vision *)
(* model reads the document its image shows, or fails.                     *)
(***************************************************************************)
SessionOwner == [sid \in PairIds |-> IF sid = "s1" THEN "pA" ELSE "pC"]
StoreAnswers ==
    [AllFail EXCEPT !.idFail = FALSE, !.idFail2 = FALSE, !.dupFail = FALSE,
                    !.markFail = FALSE]
OwnStageInputs(step) ==
    IF step = BACK_DOCUMENT
    THEN {StageInput(StoreAnswers, Answer(Content({}, BackJson)), VisionFailure)}
    ELSE IF step = SELFIE
    THEN {StageInput(StoreAnswers, VisionFailure, sf) :
             sf \in {VisionFailure, Answer(Content({}, SelfieJson(90)))}}
    ELSE {StageInput([StoreAnswers EXCEPT !.oaDoc = oa], VisionFailure, VisionFailure) :
             oa \in {FAIL, Ok(Content({}, DocJson("D1", "N1"))),
                     Ok(Content({}, DocJson("D2", "N1")))}}

OwnCreateSession ==
    /\ last = Idle
    /\ \E sid \in PairIds \ DOMAIN sessions :
        /\ sessions' = [s \in DOMAIN sessions \cup {sid} |->
                           IF s = sid THEN NewSession(SessionOwner[sid]) ELSE sessions[s]]
        /\ last' = [Obs("createSession", sid) EXCEPT
                       !.result = Some(NewSession(SessionOwner[sid]))]
        /\ UNCHANGED <<messages, players, openaiConfigured, inflight>>

\* OrchestratorService.handleKYCFlow for the account of the session
OwnStage ==
    /\ last = Idle
    /\ \E sid \in DOMAIN sessions, imageBase64 \in KycImages :
       \E in \in OwnStageInputs(KycStepOf(sessions[sid])) :
        LET r == RunStage(sid, SessionOwner[sid], imageBase64, in)
        IN /\ sessions' = r.st.sessions
           /\ players' = r.st.players
           /\ last' = [Obs("handleKYCFlow", sid) EXCEPT
                          !.threw = r.st.err # "", !.err = r.st.err,
                          !.reply = r.response, !.calls = r.st.calls,
                          !.pre = Snapshot(sid), !.kyc = r.st.kyc, !.stage = r.st.stage,
                          !.images = IF imageBase64 = None THEN <<>> ELSE <<imageBase64>>,
                          !.playerId = SessionOwner[sid], !.input = Some(in)]
           /\ UNCHANGED <<messages, openaiConfigured, inflight>>

TwoAccountInit ==
    /\ sessions = <<>>
    /\ messages = <<>>
    /\ players = KycPlayers
    /\ openaiConfigured = TRUE
    /\ inflight = NoDeliveries
    /\ last = Idle

TwoAccountNext ==
    \/ OwnCreateSession
    \/ OwnStage
    \/ Return
TwoAccountSpec == TwoAccountInit /\ [][TwoAccountNext]_vars

(***************************************************************************)
(* The ticket flow of a session: handleTicketVerificationWithContext over  *)
(* the result TicketVerificationService.verifyTicket returns for the       *)
(* image, and handleTicketVerificationByText over the ledger.              *)
(***************************************************************************)
\* result.bet, <<>> for a result that carries no such property
ResultBet(result) == IF "bet" \in DOMAIN result THEN result.bet ELSE Absent

\* TicketVerificationService.formatTicketResponse
formatTicketResponseByApi(result) ==
    IF ~result.success
    THEN [Reply("ticket_error") EXCEPT !.id = result.ticketId, !.parts = {result.error.kind}]
    ELSE IF ~IsSome(result.ticketData)
    THEN [Reply("ticket_without_data") EXCEPT !.id = result.ticketId]
    ELSE [Reply("ticket_info") EXCEPT !.id = result.ticketId,
                                      !.parts = {Get(result.ticketData).status}]

handleTicketVerificationWithContextOn(st0, sid, result) ==
    Bind(st0, LAMBDA st :
      LET st1 == [st EXCEPT !.calls = @ \cup result.calls]
          st2 == IF result.success /\ IsSome(ResultBet(result)) /\ result.ticketId # <<>>
                 THEN setLastVerifiedTicket(st1, sid, result.ticketId,
                                            Get(ResultBet(result)))
                 ELSE st1
          response == formatTicketResponseByApi(result)
      IN Out(st2, IF result.success THEN WithFollowUpPrompt(response) ELSE response))

TicketImageTurn ==
    /\ last = Idle
    /\ \E sid \in DOMAIN sessions :
       \E oa \in TicketImageAnswers, ocrHttp \in {FAIL, Ok(OcrPayload(TRUE, Id0000099999, None, None, 80))},
          apiKey \in BOOLEAN, down \in BOOLEAN, draw \in MockDraws :
        LET result == verifyTicketByApi(openaiConfigured, oa, ocrHttp, apiKey, down, FALSE, draw)
            r == handleTicketVerificationWithContextOn(StartSt, sid, result)
        IN /\ sessions' = r.st.sessions
           /\ last' = [Obs("handleTicketVerificationWithContext", sid) EXCEPT
                          !.threw = r.st.err # "", !.err = r.st.err,
                          !.reply = r.response, !.calls = r.st.calls,
                          !.pre = Snapshot(sid), !.images = <<"imgA">>,
                          !.result = Some(result),
                          !.resolved = IF result.success THEN Some(result.ticketId)
                                       ELSE Absent]
           /\ UNCHANGED <<messages, players, openaiConfigured, inflight>>

TicketTextTurn ==
    /\ last = Idle
    /\ \E sid \in DOMAIN sessions, ticketId \in {Id0000085426, Id0000099999},
          ledgerFail \in BOOLEAN :
        LET r == handleTicketVerificationByText(StartSt, sid, ticketId, <<W("hola")>>,
                                                [AllFail EXCEPT !.ledgerFail = ledgerFail])
        IN /\ sessions' = r.st.sessions
           /\ last' = [Obs("handleTicketVerificationByText", sid) EXCEPT
                          !.threw = r.st.err # "", !.err = r.st.err,
                          !.reply = r.response, !.calls = r.st.calls,
                          !.pre = Snapshot(sid), !.content = Some(<<W("hola")>>),
                          !.statuses = r.st.statuses,
                          !.resolved = IF IsSome(r.st.resolved)
                                       THEN Some(Get(r.st.resolved).ticketId)
                                       ELSE Absent]
           /\ UNCHANGED <<messages, players, openaiConfigured, inflight>>

TicketFlowNext ==
    \/ OwnCreateSession
    \/ TicketImageTurn
    \/ TicketTextTurn
    \/ ClearTicketContext
    \/ Return
TicketFlowSpec == Init /\ [][TicketFlowNext]_vars

(***************************************************************************)
(* Properties.  A turn is a call of processMessage on a session that       *)
(* exists; while its result is held in `last', the variables hold the      *)
(* state the turn left behind.                                             *)
(***************************************************************************)
IsTurn == last.op = "processMessage" /\ IsSome(last.pre)
Returned == IsTurn /\ ~last.threw
PreSession == Get(last.pre)
PostSession == sessions[last.sid]
TurnText == textLower(last.content)
FlowTypes == {TICKET_VERIFICATION, KYC_DOCUMENT, KYC_SELFIE, GENERAL_QUERY}

AllowedKycWrite(w) ==
    \/ w = <<"init", "absent", FRONT_DOCUMENT>>
    \/ w = <<"front", FRONT_DOCUMENT, BACK_DOCUMENT>>
    \/ w = <<"back", BACK_DOCUMENT, SELFIE>>
    \/ w = <<"complete", SELFIE, COMPLETED>>
    \/ (w[1] = "clear" /\ w[3] = "absent")

\* the writes of kycState account for the step before and after the call
KycWritesChain ==
    LET log == last.kyc
    IN IF log = <<>> THEN KycStepOf(PostSession) = KycStepOf(PreSession)
       ELSE /\ log[1][2] = KycStepOf(PreSession)
            /\ log[Len(log)][3] = KycStepOf(PostSession)
            /\ \A i \in 1..(Len(log) - 1) : log[i + 1][2] = log[i][3]

\* C1: the KYC step of a session changes only by absent -> front_document,
\* front_document -> back_document, back_document -> selfie,
\* selfie -> completed, or a reset to absent; a process is started only on a
\* session that has none; no call changes the step in any other way.
C1_KycStepMoves ==
    (IsSome(last.pre) /\ last.sid \in DOMAIN sessions) =>
        /\ KycWritesChain
        /\ \A i \in 1..Len(last.kyc) : AllowedKycWrite(last.kyc[i])
        /\ last.op # "processMessage" => last.kyc = <<>>

C1_Witness ==
    /\ IsTurn
    /\ \E i \in 1..Len(last.kyc) : last.kyc[i] = <<"front", FRONT_DOCUMENT, BACK_DOCUMENT>>
    /\ KycStepOf(PostSession) = BACK_DOCUMENT

KycField(session, f) == IF IsSome(session.kycState) THEN Get(session.kycState)[f] ELSE None

\* C2 (as claimed): when the verification of a KYC stage returns
\* success = false, the step, document number and full name of the session
\* are those before the turn, and the identity store is not written.
C2_FailedStageSameAsBefore ==
    (IsTurn /\ IsSome(last.stage) /\ ~Get(last.stage).success) =>
        /\ KycStepOf(PostSession) = KycStepOf(PreSession)
        /\ KycField(PostSession, "documentNumber") = KycField(PreSession, "documentNumber")
        /\ KycField(PostSession, "fullName") = KycField(PreSession, "fullName")
        /\ players = last.prePlayers

\* C2: when the verification of a KYC stage returns success = false, the
\* session is left at the stage that was verified, and the identity store
\* is not written; on a session whose process was under way the step,
\* document number and full name are those before the turn, and on a
\* session with no process (the turn started one with its image) the step
\* is front_document and no document number or full name is stored.
C2_FailedStageStays ==
    (IsTurn /\ IsSome(last.stage) /\ ~Get(last.stage).success) =>
        /\ KycStepOf(PostSession) = Get(last.stage).name
        /\ IsSome(PreSession.kycState) =>
              /\ KycStepOf(PostSession) = KycStepOf(PreSession)
              /\ KycField(PostSession, "documentNumber")
                    = KycField(PreSession, "documentNumber")
              /\ KycField(PostSession, "fullName") = KycField(PreSession, "fullName")
        /\ ~IsSome(PreSession.kycState) =>
              /\ KycField(PostSession, "documentNumber") = None
              /\ KycField(PostSession, "fullName") = None
        /\ players = last.prePlayers
        /\ "mark_verified" \notin last.calls

C2_Witness ==
    /\ IsTurn
    /\ KycStepOf(PreSession) = FRONT_DOCUMENT
    /\ IsSome(last.stage)
    /\ Get(last.stage).name = FRONT_DOCUMENT
    /\ ~Get(last.stage).success
    /\ "no_document_number" \in last.reply.parts
    /\ KycStepOf(PostSession) = FRONT_DOCUMENT

ExitCase ==
    /\ IsTurn
    /\ IsSome(PreSession.lastVerifiedTicket)
    /\ hasText(last.content)
    /\ wantsToExit(TurnText)

\* C4: on a session with lastVerifiedTicket set, a turn whose text has an
\* exit phrase clears lastVerifiedTicket and sets the context to general,
\* whatever else the turn carries; nothing is classified, looked up or
\* verified, and the turn returns the acknowledgement as general_query.
C4_ExitFirst ==
    ExitCase =>
        /\ PostSession.lastVerifiedTicket = Absent
        /\ PostSession.context = GENERAL
        /\ last.calls = {}
        /\ last.kyc = <<>>
        /\ last.stage = <<>>
        /\ last.resolved = <<>>
        /\ ~last.threw => /\ last.reply = Reply("left_ticket_context")
                          /\ last.flowType = GENERAL_QUERY

C4_Witness ==
    /\ ExitCase
    /\ Returned
    /\ isFollowUp(TurnText)
    /\ extractTicketId(TurnText) # <<>>

C4_WitnessImage == ExitCase /\ Returned /\ last.images # <<>>

FollowUpCase ==
    /\ IsTurn
    /\ IsSome(PreSession.lastVerifiedTicket)
    /\ hasText(last.content)
    /\ last.images = <<>>
    /\ ~wantsToExit(TurnText)
    /\ isFollowUp(TurnText)

\* C5: on a session with lastVerifiedTicket set, a text-only turn with a
\* follow-up word and no exit phrase is answered from the stored record and
\* tagged ticket_verification; the ledger is not consulted and
\* lastVerifiedTicket is left as it was.
C5_FollowUpFromStoredRecord ==
    FollowUpCase =>
        /\ ~last.threw => last.flowType = TICKET_VERIFICATION
        /\ last.calls \subseteq {"generate_answer", "generate_fallback"}
        /\ last.resolved = <<>>
        /\ last.reply.id \in {<<>>, Get(PreSession.lastVerifiedTicket).betData.betLocalId}
        /\ ~last.threw => last.reply.kind \in {"followup_answer", "followup_plain_answer",
                                               GEN_ERROR, GEN_UNAVAILABLE}
        /\ PostSession.lastVerifiedTicket = PreSession.lastVerifiedTicket

C5_Witness ==
    /\ FollowUpCase
    /\ Returned
    /\ last.reply.kind = "followup_answer"
    /\ last.reply.id = Id0000085426

\* C6 (as claimed): a text-only turn whose text has a ticket id, and that is
\* neither an exit nor a follow-up on an active ticket, is resolved against
\* the ledger and tagged ticket_verification whatever the classifier returns.
C6_IdInTextIsTicketFlow ==
    (Returned /\ hasText(last.content) /\ last.images = <<>>
       /\ extractTicketId(TurnText) # <<>>
       /\ ~ExitCase /\ ~FollowUpCase) =>
        /\ last.flowType = TICKET_VERIFICATION
        /\ "ledger" \in last.calls

\* C7 (as claimed): after a turn that resolved a ticket against the ledger
\* and returned its data, lastVerifiedTicket holds that ticket's id and
\* record.
C7_ResolvedTicketIsRemembered ==
    (Returned /\ IsSome(last.resolved)) =>
        /\ IsSome(PostSession.lastVerifiedTicket)
        /\ Get(PostSession.lastVerifiedTicket).ticketId = Get(last.resolved).ticketId
        /\ Get(PostSession.lastVerifiedTicket).betData = Get(last.resolved).bet

\* C8 (as claimed): after a turn that starts or advances a KYC process on a
\* session that had lastVerifiedTicket set, the session has no
\* lastVerifiedTicket.
C8_KycClearsTicket ==
    (Returned /\ IsSome(PreSession.lastVerifiedTicket)
       /\ \E i \in 1..Len(last.kyc) : last.kyc[i][1] \in {"init", "front", "back", "complete"}) =>
        PostSession.lastVerifiedTicket = Absent

C11_ClosedSessionRejects ==
    (last.op \in {"addMessage", "addAssistantMessage", "processMessage"}
       /\ IsSome(last.pre) /\ PreSession.status = CLOSED) =>
        /\ Len(messages) = last.preLen
        /\ PostSession.context = PreSession.context
        /\ PostSession.lastVerifiedTicket = PreSession.lastVerifiedTicket
        /\ PostSession.kycState = PreSession.kycState
        /\ players = last.prePlayers

\* a run of the KYC flow: a turn, or handleKYCFlow with the answers of the
\* analysis given
IsKycRun == last.op \in {"processMessage", "handleKYCFlow"} /\ IsSome(last.pre)

\* C12: once the KYC step of a session is completed, no turn changes the
\* step, the document number or the full name stored (nor anything else of
\* kycState): no turn resets a completed process.
C12_CompletedIsTerminal ==
    (IsKycRun /\ KycStepOf(PreSession) = COMPLETED) =>
        /\ PostSession.kycState = PreSession.kycState
        /\ last.kyc = <<>>
        /\ last.stage = <<>>

C12_Witness ==
    /\ IsTurn
    /\ KycStepOf(PreSession) = COMPLETED
    /\ last.images # <<>>
    /\ last.flowType = KYC_DOCUMENT
    /\ last.reply.kind = "kyc_already_completed"
    /\ KycField(PostSession, "documentNumber") = "D2"

\* the front stage was run with the image analysis reading document number doc
FrontStageRead(doc) ==
    /\ last.op = "handleKYCFlow"
    /\ IsSome(last.pre)
    /\ IsSome(last.input)
    /\ openaiConfigured
    /\ Get(last.input).e.oaDoc = Ok(Content({}, DocJson(doc, "N1")))
    /\ IsSome(last.stage)
    /\ Get(last.stage).name = FRONT_DOCUMENT

SelfieStageRan ==
    /\ last.op = "handleKYCFlow"
    /\ IsSome(last.pre)
    /\ IsSome(last.input)
    /\ IsSome(last.stage)
    /\ Get(last.stage).name = SELFIE

C15_CompletedOnlyIfMarked ==
    IsKycRun =>
        /\ (KycStepOf(PostSession) = COMPLETED /\ KycStepOf(PreSession) # COMPLETED) =>
              /\ KycStepOf(PreSession) = SELFIE
              /\ KycField(PreSession, "documentNumber") # None
              /\ "mark_verified" \in last.calls
              /\ last.playerId \in DOMAIN players
              /\ players[last.playerId] =
                     Player(TRUE, KycField(PreSession, "documentNumber"))
              /\ KycField(PostSession, "completedAt") >= 0
        /\ (SelfieStageRan /\ Get(last.stage).success /\ Get(last.input).e.markFail) =>
              /\ PostSession.kycState = PreSession.kycState
              /\ KycStepOf(PostSession) = SELFIE
              /\ players = last.prePlayers

\* a verified selfie completed the session of account pA, marked with D2
C15_Witness ==
    /\ SelfieStageRan
    /\ KycStepOf(PreSession) = SELFIE
    /\ KycStepOf(PostSession) = COMPLETED
    /\ last.playerId = "pA"
    /\ last.prePlayers["pA"] = Player(FALSE, None)
    /\ players["pA"] = Player(TRUE, "D2")
    /\ last.reply.kind = "kyc_success"

\* a KYC stage call with an image that passed the account gate
GatePassed ==
    /\ last.op = "handleKYCFlow"
    /\ IsSome(last.pre)
    /\ IsSome(last.input)
    /\ last.images # <<>>
    /\ last.playerId \in DOMAIN last.prePlayers
    /\ ~Get(last.input).e.idFail
    /\ ~last.prePlayers[last.playerId].verify

\* the session is at selfie without the artifacts of the front-document stage
LostArtifacts ==
    /\ KycStepOf(PreSession) = SELFIE
    /\ \/ KycField(PreSession, "frontImageBase64") = None
       \/ KycField(PreSession, "documentNumber") = None

\* C16: a selfie stage entered without the stored front image or document
\* number compares nothing and leaves the identity records alone; it clears
\* the KYC state (kycState absent, context general) and answers with the
\* restart message. An image turn on a session without kycState, which is what
\* the reset leaves, runs the front-document stage.
C16_MissingArtifactsReset ==
    /\ (GatePassed /\ LostArtifacts) =>
          /\ last.reply.kind = "kyc_restart"
          /\ last.stage = <<>>
          /\ last.calls \cap {"vision_selfie", "mark_verified"} = {}
          /\ players = last.prePlayers
          /\ ~IsSome(PostSession.kycState)
          /\ PostSession.context = GENERAL
          /\ ~last.threw
    /\ (GatePassed /\ ~IsSome(PreSession.kycState)) =>
          /\ IsSome(last.stage)
          /\ Get(last.stage).name = FRONT_DOCUMENT
          /\ "vision_selfie" \notin last.calls

\* the reset happened on a session that held a back image but no front data
C16_Witness ==
    /\ GatePassed
    /\ LostArtifacts
    /\ KycField(PreSession, "backImageBase64") = "imgB"
    /\ PreSession.context = CTX_KYC
    /\ last.reply.kind = "kyc_restart"
    /\ ~IsSome(PostSession.kycState)

\* C17 (as claimed): a turn routed to the KYC flow without an image, on a
\* session with no KYC process started, is answered with the three-stage
\* instructions and leaves the session as it was: kycState still absent, the
\* context unchanged.
C17_InstructionsDoNotMutate ==
    (IsKycRun /\ ~IsSome(PreSession.kycState) /\ last.images = <<>>
       /\ last.reply.kind = "kyc_instructions") =>
        /\ ~IsSome(PostSession.kycState)
        /\ PostSession.context = PreSession.context

\* a KYC stage call the account gate refuses
Gated ==
    /\ last.op = "handleKYCFlow"
    /\ IsSome(last.pre)
    /\ IsSome(last.input)
    /\ \/ last.playerId = None
       \/ last.playerId \notin DOMAIN last.prePlayers
       \/ Get(last.input).e.idFail
       \/ last.prePlayers[last.playerId].verify

\* C18: without an account id, with an account id that resolves to no
\* identity record, or with an identity record already verified, the KYC
\* flow runs no stage: no verification is called, the session (kycState and
\* context included) and the identity records are unchanged, and the reply
\* is the refusal of that case.
C18_GateRefuses ==
    Gated =>
        /\ last.stage = <<>>
        /\ last.kyc = <<>>
        /\ last.calls \subseteq {"identity_lookup"}
        /\ PostSession = PreSession
        /\ players = last.prePlayers
        /\ ~last.threw
        /\ last.reply.kind =
              IF last.playerId = None THEN "kyc_login_required"
              ELSE IF last.playerId \notin DOMAIN last.prePlayers
                      \/ Get(last.input).e.idFail
              THEN "kyc_account_not_found"
              ELSE "kyc_already_verified"

\* the verified account pB sent an image to a session waiting for a back document
C18_Witness ==
    /\ Gated
    /\ last.playerId = "pB"
    /\ ~Get(last.input).e.idFail
    /\ last.images # <<>>
    /\ KycStepOf(PreSession) = BACK_DOCUMENT
    /\ last.reply.kind = "kyc_already_verified"

\* the ids of the claim: "85426", "0000085426" and "85426 "
ClaimedIds == {Core85426, Id0000085426, Core85426 \o <<Blank>>}

\* C19 (as claimed): with the record of ticket 85426 in the ledger, under
\* "85426" or under "0000085426", each of the ids "85426", "0000085426" and
\* "85426 " resolves to that record.
C19_SameRecord ==
    (last.op = "findBetByLocalId" /\ Get(last.input).id \in ClaimedIds
       /\ ~Get(last.input).dbFail) =>
        /\ Get(last.result).found
        /\ Get(last.result).bet =
              Some([Bet85426 EXCEPT !.betLocalId = Get(last.input).stored])

\* C20 (as claimed): when the id read from a ticket image has no record in
\* the ledger, verifyTicket returns success = false with an error naming that
\* id, and the result carries the id and its confidence; it never returns
\* success = true with ticket data for an id the ledger does not hold.
C20_UnknownIdFails ==
    last.op = "verifyTicket" =>
        LET in == Get(last.input)
            x == extractFromImage(openaiConfigured, in.oa, in.ocrHttp)
            result == Get(last.result)
        IN /\ (~x.threw /\ x.ticketId # <<>> /\ x.ticketId \notin ApiTickets) =>
                 /\ ~result.success
                 /\ result.error = NoInformationFor(x.ticketId)
                 /\ result.ticketId = x.ticketId
                 /\ result.confidence = x.confidence
           /\ (result.success /\ IsSome(result.ticketData)) =>
                 result.ticketId \in ApiTickets

\* the vision extraction of a verifyTicket call yielded a ticket id
VisionYieldedId ==
    LET oa == Get(last.input).oa
    IN /\ openaiConfigured
       /\ ~Failed(oa)
       /\ IsSome(Payload(oa).json)
       /\ Get(Payload(oa).json).ticketId # <<>>
\* the OCR extraction of a verifyTicket call would yield a ticket id
OcrYieldsId ==
    LET http == Get(last.input).ocrHttp
    IN ~Failed(http) /\ Payload(http).success /\ Payload(http).ticket_id # <<>>

\* C21: verifyTicket calls the OCR extraction only if the vision extraction
\* yielded no ticket id; when neither yields one the result is the 'could not
\* identify ticket' failure, with no ticketId and no query of the tickets API.
C21_OcrOnlyAsFallback ==
    last.op = "verifyTicket" =>
        LET result == Get(last.result)
        IN /\ "ocr_ticket" \in result.calls <=> ~VisionYieldedId
           /\ VisionYieldedId =>
                 result.ticketId = Get(Payload(Get(last.input).oa).json).ticketId
           /\ (~VisionYieldedId /\ ~OcrYieldsId) =>
                 /\ ~result.success
                 /\ result.error.kind = "could_not_identify_ticket"
                 /\ result.ticketId = <<>>
                 /\ ~IsSome(result.ticketData)
                 /\ result.confidence = 0
                 /\ "tickets_api" \notin result.calls

\* the vision answer had an empty id and a confidence, the OCR answered without
\* an id: nothing is guessed
C21_Witness ==
    /\ last.op = "verifyTicket"
    /\ openaiConfigured
    /\ Get(last.input).oa = Ok(Content({}, NoTicketJson))
    /\ Get(last.input).ocrHttp = Ok(OcrPayload(TRUE, <<>>, None, None, 80))
    /\ Get(last.result).calls = {"vision_ticket", "ocr_ticket"}
    /\ Get(last.result).error.kind = "could_not_identify_ticket"

CanceledOrVoid == {"Canceled", "Cancelled", "Void"}

\* C22 (as claimed): formatBetResponse appends the 'requires human review'
\* notice, and leaves out the loss breakdown and the 'no cancellation'
\* statement, whenever the overall result or the result of any leg is
\* canceled or void, whatever the question.
C22_CanceledOrVoidEscalates ==
    last.op = "formatBetResponse" =>
        LET bet == Get(last.input).bet
        IN (\/ bet.result \in CanceledOrVoid
            \/ \E i \in 1..Len(bet.events) : bet.events[i].result \in CanceledOrVoid) =>
               /\ "human_review" \in last.reply.parts
               /\ "loss_breakdown" \notin last.reply.parts
               /\ "no_cancellation" \notin last.reply.parts
               /\ last.reply.legs = {}

\* the text asks why the ticket was lost
AsksWhyLost(text) == Includes(text, "perdí") \/ isAskingAboutLoss(text)
\* the replies whose text is written by the language model
GeneratedAnswers == {"followup_answer", "followup_plain_answer"}

\* C23 (as claimed, follow-up turn): a follow-up turn asking why the stored
\* lastVerifiedTicket was lost is answered with a reply that names exactly
\* the legs of the stored record whose result is Lost.  A reply written by
\* the language model is taken to name them.
C23_FollowUpNamesLostLegs ==
    (FollowUpCase /\ Returned /\ AsksWhyLost(Get(last.content))) =>
        \/ last.reply.kind \in GeneratedAnswers
        \/ /\ last.reply.legs = LostEvents(Get(PreSession.lastVerifiedTicket).betData)
           /\ last.reply.legs # {}

\* a getMessages call that returned: its arguments and the messages returned
Fetched == last.op = "getMessages" /\ ~last.threw
FetchLimit == last.result[1]
FetchOffset == last.result[2]
FetchValue == last.result[3]
Stored == MessagesOf(messages, last.sid)

\* C24 (as claimed): every message appended to the session is returned by a
\* following getMessages call for that session, whatever the number of
\* messages already in the session (the call with the default page).
C24_AppendedIsReturned ==
    (Fetched /\ FetchLimit = DEFAULT_LIMIT /\ FetchOffset = 0) =>
        \A k \in 1..Len(Stored) :
            \E j \in 1..Len(FetchValue) : FetchValue[j] = Stored[k]

\* C24 (amended): addMessage on an active session stores the message last,
\* with the role and content given and a creation time after every earlier
\* one; getMessages(limit, offset) returns, in order of creation time and
\* unchanged, exactly the messages of the session at positions offset + 1 to
\* offset + limit, so that the default call returns an appended message if
\* and only if fewer than 50 messages were in the session before it.
C24_WindowRoundTrip ==
    /\ (last.op = "addMessage" /\ ~last.threw) =>
          LET m == messages[Len(messages)]
          IN /\ Get(last.result) = m
             /\ m.sessionId = last.sid
             /\ m.role = Get(last.input).role
             /\ m.text = Get(last.input).text
             /\ \A i \in 1..(Len(messages) - 1) : messages[i].createdAt < m.createdAt
    /\ Fetched =>
          /\ \A k \in 1..Len(Stored) :
                (FetchOffset < k /\ k <= FetchOffset + FetchLimit)
                    <=> \E j \in 1..Len(FetchValue) : FetchValue[j] = Stored[k]
          /\ \A j \in 1..Len(FetchValue) : FetchValue[j] = Stored[FetchOffset + j]
          /\ \A i, j \in 1..Len(FetchValue) :
                i < j => FetchValue[i].createdAt < FetchValue[j].createdAt

\* the 51st message, an assistant message, is past the default page and is
\* returned by the call that skips the first 50
C24_Witness ==
    /\ Fetched
    /\ Len(Stored) = MaxHistory
    /\ FetchOffset = DEFAULT_LIMIT
    /\ Len(FetchValue) = 1
    /\ FetchValue[1] = Stored[Len(Stored)]
    /\ FetchValue[1].role = ASSISTANT

\* C25: no step deletes a session, and no step (addMessage, processMessage
\* with the ticket-context and KYC mutators it runs, closeSession again)
\* makes a closed session active; getSession and closeSession return the
\* session as stored, closed once it was closed.
C25_ClosedIsTerminal ==
    [][/\ \A sid \in DOMAIN sessions :
            /\ sid \in DOMAIN sessions'
            /\ sessions[sid].status = CLOSED => sessions'[sid].status = CLOSED
       /\ (last'.op \in {"getSession", "closeSession"} /\ ~last'.threw) =>
            /\ last'.result = Some(sessions'[last'.sid])
            /\ last'.op = "closeSession" => sessions'[last'.sid].status = CLOSED]_vars

\* a turn on a closed session that held a ticket left the topic: the session
\* was written and is still closed
C25_Witness ==
    /\ IsTurn
    /\ PreSession.status = CLOSED
    /\ IsSome(PreSession.lastVerifiedTicket)
    /\ ~IsSome(PostSession.lastVerifiedTicket)
    /\ PostSession.status = CLOSED

\* the progress contract: the checkpoints of a resolution that completes,
\* with and without the OCR fallback
ContractCheckpoints(withOcr) ==
    <<Status(STEP_RECEIVED, 10), Status(STEP_ANALYZING_IMAGE, 20)>>
    \o (IF withOcr THEN <<Status(STEP_EXTRACTING_TEXT, 40)>> ELSE <<>>)
    \o <<Status(STEP_QUERYING_API, 60), Status(STEP_GENERATING_RESPONSE, 80),
         Status(STEP_COMPLETED, 100)>>
\* all of them, or some first ones and then error in place of the rest
FollowsContract(statuses) ==
    \E withOcr \in BOOLEAN :
        LET full == ContractCheckpoints(withOcr)
        IN \/ statuses = full
           \/ \E k \in 1..(Len(full) - 1) :
                 statuses = SubSeq(full, 1, k) \o <<Status(STEP_ERROR, 100)>>
\* a turn went down the id-in-text path: only that path emits in a turn
TextResolutionRan == IsTurn /\ last.statuses # <<>>

\* C26 (as claimed): within one ticket resolution the progress checkpoints are
\* emitted in the contract order received, analyzing, extracting-text (only
\* on OCR fallback), querying, generating-response, completed, with error
\* replacing the remainder at the point of failure, and with the contract
\* percentages 10, 20, 40, 60, 80, 100; stated here for the id-in-text path.
C26_CheckpointsFollowContract ==
    TextResolutionRan => FollowsContract(last.statuses)

\* the same call of verifyTicket with no callback
WithoutCallback ==
    LET in == Get(last.input)
    IN verifyTicketByApi(openaiConfigured, in.oa, in.ocrHttp, in.apiKey, in.down,
                         in.nullBody, in.draw)

\* C27 (as claimed): a status callback that throws at any checkpoint never
\* fails the pipeline: verifyTicket does not throw and returns the result,
\* after the same capability calls, of the run with no callback.
C27_CallbackFailureIsHarmless ==
    last.op = "verifyTicket_onStatusUpdate" =>
        /\ ~last.threw
        /\ Get(last.result) = WithoutCallback

\* the other session of the pair
Other(sid) == IF sid = "s1" THEN "s2" ELSE "s1"
\* an operation on one session has just acted while the other exists
ActedBeside(b) ==
    /\ last.sid \in PairIds
    /\ b = Other(last.sid)
    /\ b \in DOMAIN sessions

C29_OneInFlightPerSession ==
    \A d1 \in Deliveries : \A d2 \in Deliveries \ {d1} :
        (inflight[d1].pc = "processMessage" /\ inflight[d2].pc = "processMessage") =>
            inflight[d1].sid # inflight[d2].sid

\* a turn with neither non-blank text nor images on an active session
EmptyTurn ==
    /\ IsTurn
    /\ ~hasText(last.content)
    /\ last.images = <<>>
    /\ PreSession.status = ACTIVE

\* C30 (as claimed): for a turn with neither non-blank text nor images on an
\* existing active session processMessage does not fail: it returns the
\* generic 'how can I help' prompt with flow type general_query, persists it,
\* and leaves the session's context, lastVerifiedTicket and kycState unchanged.
C30_EmptyTurnGetsGenericPrompt ==
    EmptyTurn =>
        /\ ~last.threw
        /\ last.reply = Reply("how_can_i_help")
        /\ last.flowType = GENERAL_QUERY
        /\ Len(messages) = last.preLen + 1
        /\ messages[Len(messages)].sessionId = last.sid
        /\ messages[Len(messages)].role = ASSISTANT
        /\ messages[Len(messages)].text = Reply("how_can_i_help")
        /\ PostSession.context = PreSession.context
        /\ PostSession.lastVerifiedTicket = PreSession.lastVerifiedTicket
        /\ PostSession.kycState = PreSession.kycState

\* C31 (as claimed): a process request that carries a session id but neither
\* content nor images is rejected before pipeline entry: the endpoint answers
\* with a client error and processMessage is not invoked.
C31_EmptyRequestRejected ==
    \A d \in Deliveries :
        (inflight[d].via = "rest" /\ inflight[d].sid # "none"
           /\ ~IsSome(inflight[d].content) /\ inflight[d].images = <<>>) =>
            inflight[d].pc = "rejected"

\* C37 (as claimed): the chat:message event handleMessage emits as the
\* assistant response carries the assistant message processMessage persisted
\* for this turn: same message, role assistant, text equal to the reply.
C37_EmitsPersistedReply ==
    \A d \in Deliveries :
        (inflight[d].via = "chat:message" /\ IsSome(inflight[d].emitted)) =>
            /\ Get(inflight[d].emitted) = Get(inflight[d].persisted)
            /\ Get(inflight[d].emitted).role = ASSISTANT
            /\ Get(inflight[d].emitted).text = Get(inflight[d].reply)

\* a KYC stage verification ran and returned success = false
StageFailed ==
    /\ last.op \in {"handleKYCFlow", "processMessage"}
    /\ IsSome(last.stage)
    /\ ~Get(last.stage).success
StageErrors == {Get(last.stage).validationErrors[i] :
                   i \in 1..Len(Get(last.stage).validationErrors)}
\* the number read from the front document differs from the one on the account
MismatchApplies ==
    /\ last.playerId \in DOMAIN last.prePlayers
    /\ last.prePlayers[last.playerId].documentNumber # None
    /\ last.prePlayers[last.playerId].documentNumber # Get(last.stage).documentNumber
\* the number read from the front document is on another account
DuplicateApplies ==
    \E p \in DOMAIN last.prePlayers :
        /\ p # last.playerId
        /\ last.prePlayers[p].documentNumber = Get(last.stage).documentNumber

\* C32 (as claimed): whenever a KYC stage verification returns success = false
\* its validationErrors list is non-empty, and it holds every validation
\* problem that applies, e.g. both the document-number mismatch and the
\* duplicate registration when the identity store reports both.
C32_FailureListsEveryProblem ==
    StageFailed =>
        /\ StageErrors # {}
        /\ (Get(last.stage).name = FRONT_DOCUMENT
              /\ Get(last.stage).documentNumber # None
              /\ IsSome(last.input)
              /\ ~Get(last.input).e.idFail /\ ~Get(last.input).e.dupFail) =>
                /\ MismatchApplies => "document_mismatch" \in StageErrors
                /\ DuplicateApplies => "duplicate_registration" \in StageErrors

\* the turn left an active ticket context
TookExitBranch ==
    IsSome(PreSession.lastVerifiedTicket) /\ hasText(last.content) /\ wantsToExit(TurnText)
\* the turn answered a follow-up question about the active ticket
TookFollowUpBranch ==
    /\ IsSome(PreSession.lastVerifiedTicket) /\ hasText(last.content)
    /\ last.images = <<>> /\ isFollowUp(TurnText)
\* a turn with an image that reaches the choice of flow
ImageTurn ==
    /\ IsTurn /\ ~last.threw
    /\ last.images # <<>>
    /\ ~TookExitBranch /\ ~TookFollowUpBranch
    /\ extractTicketId(TurnText) = <<>>

\* C33 (as claimed): a turn with an image (no exit or follow-up on an active
\* ticket, no ticket id in its text) gets its flow from the vision
\* classification of the image, and the text intent classifier is consulted
\* only for turns with no image and no extracted id.
C33_ImageTurnRoutedByVision ==
    /\ ImageTurn =>
        /\ "vision_classify" \in last.calls
        /\ last.flowType # GENERAL_QUERY => openaiConfigured
    /\ (IsTurn /\ "classifyIntent" \in last.calls) =>
        /\ last.images = <<>>
        /\ extractTicketId(TurnText) = <<>>

\* C34 (as claimed): routing is deterministic: two runs that start from equal
\* session state, receive the same text, images and account id and get the
\* same responses from every external capability return the same flow type
\* and reply and make the same state changes.  Checked on the ticket pipeline
\* the image branch of a turn returns from: a second run given the same
\* answers (vision, OCR, tickets API) returns what the observed run returned.
C34_SameAnswersSameOutcome ==
    (last.op = "verifyTicket" /\ IsSome(last.input) /\ IsSome(last.result)) =>
        \A draw \in MockDraws :
            verifyTicketByApi(openaiConfigured, Get(last.input).oa, Get(last.input).ocrHttp,
                              Get(last.input).apiKey, Get(last.input).down,
                              Get(last.input).nullBody, draw) = Get(last.result)

\* C35 (as claimed): formatBetResponse appends the 'why was this ticket lost'
\* breakdown only when the ticket itself is a loss: for a bet whose overall
\* result is not Lost the breakdown is not appended, even if the question asks
\* about losing and some leg has result Lost.
C35_BreakdownOnlyForLostTicket ==
    (last.op = "formatBetResponse" /\ IsSome(last.input)) =>
        ("loss_breakdown" \in last.reply.parts => Get(last.input).bet.result = "Lost")

TicketFlowReplied ==
    /\ last.op \in {"handleTicketVerificationWithContext", "handleTicketVerificationByText"}
    /\ ~last.threw
\* after the turn lastVerifiedTicket of the session is the ticket it resolved
StoredResolvedTicket ==
    /\ IsSome(last.resolved)
    /\ IsSome(sessions[last.sid].lastVerifiedTicket)
    /\ Get(sessions[last.sid].lastVerifiedTicket).ticketId = Get(last.resolved)

\* C38 (as claimed): in the ticket flow the reply carries the 'ask a
\* follow-up' suffix if and only if lastVerifiedTicket was set to the resolved
\* ticket during the same turn.
C38_PromptIffContextStored ==
    TicketFlowReplied => ((FOLLOWUP_PROMPT \in last.reply.parts) <=> StoredResolvedTicket)

\* the process of the session is past the front document
PastFront(session) == KycStepOf(session) \in {BACK_DOCUMENT, SELFIE, COMPLETED}
\* the document number and the front image are present
HasFront(session) ==
    /\ Get(session.kycState).documentNumber # None
    /\ Get(session.kycState).frontImageBase64 # None
\* a turn of an existing session (processMessage, or the KYC handler it calls)
\* that found the state of the session well formed
SessionTurn ==
    /\ last.op \in {"processMessage", "handleKYCFlow"}
    /\ IsSome(last.pre)
    /\ PastFront(PreSession) => HasFront(PreSession)
\* the front stage of this turn accepted the values the session now holds
AcceptedThisTurn ==
    /\ IsSome(last.stage)
    /\ Get(last.stage).name = FRONT_DOCUMENT /\ Get(last.stage).success
    /\ Get(PostSession.kycState).documentNumber = Get(last.stage).documentNumber
    /\ last.images # <<>>
    /\ Get(PostSession.kycState).frontImageBase64 = last.images[1]
KeptFromBefore ==
    /\ PastFront(PreSession)
    /\ Get(PostSession.kycState).documentNumber = Get(PreSession.kycState).documentNumber
    /\ Get(PostSession.kycState).frontImageBase64 =
           Get(PreSession.kycState).frontImageBase64

\* C39: with the turns of a session processed one at a time, whenever
\* kycState.currentStep is back_document, selfie or completed, the document
\* number and the front image of kycState are present and are the values the
\* front-document stage accepted: every turn that ends past the front stage
\* either accepted them itself or found them and left them as they were.
C39_FrontValuesKept ==
    (SessionTurn /\ PastFront(PostSession)) =>
        /\ HasFront(PostSession)
        /\ AcceptedThisTurn \/ KeptFromBefore

C39_Witness ==
    /\ SessionTurn
    /\ KycStepOf(PreSession) = SELFIE
    /\ KycStepOf(PostSession) = COMPLETED
    /\ Get(PostSession.kycState).documentNumber = "D2"
    /\ Get(PostSession.kycState).frontImageBase64 = "imgA"

\* a stage verification of the KYC pipeline ran and emitted 'received'
StageEmittedReceived ==
    /\ last.op \in {"handleKYCFlow", "processMessage"}
    /\ IsSome(last.stage)
    /\ \E i \in 1..Len(Get(last.stage).statuses) :
          Get(last.stage).statuses[i].step = STEP_RECEIVED
TerminalSteps == {STEP_COMPLETED, STEP_ERROR}

\* C40 (as claimed): every run of a verification pipeline that emits the
\* received checkpoint emits, as its last checkpoint, exactly one terminal
\* checkpoint at progress 100: completed if and only if the returned result
\* has success = true, error otherwise.
C40_EndsWithOneTerminalCheckpoint ==
    StageEmittedReceived =>
        LET statuses == Get(last.stage).statuses
        IN /\ statuses[Len(statuses)] = TerminalStatus(Get(last.stage).success)
           /\ \A i \in 1..(Len(statuses) - 1) : statuses[i].step \notin TerminalSteps

\* C10 (as claimed): no operation throws to its caller, whatever the session
\* id it is given.
C10_NothingThrows == ~last.threw

====
